---- MODULE Spec2Model ----
(***************************************************************************)
(* Model of the SHD overlay coordination server (server/src/index.ts):     *)
(* slot allocation on attach, the shared ready/name/travel state, the      *)
(* text-frame protocol handler with its broadcasts, and the stream         *)
(* pipeline bookkeeping.  Node runs every handler to completion, so each   *)
(* handler is one atomic action; the suspension points are the awaits in   *)
(* stopStreamAndUpload and uploadToConvex, after each of which the         *)
(* procedure goes on in a step of its own.  The desktop app is modelled as *)
(* far as it meets the server: the connect window's socket, stream flag    *)
(* and MediaRecorder (app/src/renderer/connect/index.ts), and the main     *)
(* process's overlay window with its message queue                         *)
(* (app/src/main/index.ts).                                                *)
(***************************************************************************)
EXTENDS Integers, Sequences, FiniteSets, TLC

\* ---------------------------------------------------------------- constants
MAX_AGENTS == 8

countdownDuration == 3000

MaxNameLen == 32

\* The close code of a refused connection: ws.close(1008, ...).
PolicyViolation == 1008

\* ---------------------------------------------------------------- bounds
\* Socket objects created during a run; each connection is a fresh object.
MaxSockets == 9

\* Socket objects created in a run of the protocol specification.
MaxPeers == 3

\* Sockets that leave (close or error) in a run of the pool specification.
MaxDepartures == 1

\* Attached sockets that are half closed (no longer OPEN, 'close' not yet
\* emitted) at the same time.
MaxHalfClosed == 1

\* Pipeline sessions that exist at the same time, active or being stopped.
MaxSessions == 1

\* Socket objects created in a run of the socket events specification, and
\* the pipeline sessions that exist at once in it.
MaxEventPeers == 2

MaxEventSessions == 1

\* Socket objects created in a run of the naming specification.
MaxNamePeers == 2

\* Socket objects created in a run of the streaming specification, and the
\* pipeline sessions that exist at the same time in it.
MaxStreamPeers == 2

MaxStreamSessions == 2

\* Socket objects created in a run of the pipeline specification, the sessions
\* that exist at the same time in it, and the chunks the sessions that exist
\* at the same time have been sent.
MaxPipePeers == 2

MaxPipeSessions == 2

MaxBytes == 1

\* Socket objects created in a run of the session name specification, and
\* the sessions that exist at once in it.
MaxNamedPeers == 2

MaxNamedSessions == 2

\* Socket objects created in a run of the desktop client specification, and
\* the sessions that exist at once in it.
MaxAppSockets == 3

MaxAppSessions == 2

\* 'update-overlay' messages received in a run of the overlay specification,
\* and the overlay windows created in it.
MaxOverlayMessages == 4

MaxOverlayWindows == 2

\* Socket objects created in a run of the chunk specification, the sessions
\* that exist at once in it and the chunks written to them.
MaxChunkPeers == 1

MaxChunkSessions == 1

MaxChunkBytes == 3

\* Socket objects created in a run of the broken-link specification, and the
\* open sockets whose connection is broken at the same time in it.
MaxLinkPeers == 3

MaxBroken == 1

Sockets == 1..MaxSockets

Talkers == {1, 2}

\* The sockets that send frames and leave in the pipeline specification.
Streamers == {1}

Slots == 1..MAX_AGENTS

Timestamps == {1000, 5000}

\* Values of Date.now() on the server.
ServerClock == {9000}

\* "  Foo  " of the spec's first scenario, as a sequence of code units.
NameInputs == {<< >>, <<" ", "F", "o", "o", " ">>}

\* k code units c.
Rep(c, k) == [i \in 1..k |-> c]

\* Names around the 32-unit limit, as sequences of UTF-16 code units; "D83D"
\* and "DE00" are the two code units of the one code point U+1F600.
LongNameInputs ==
    NameInputs \cup
    { <<" ", "\t", " ">>,
      <<"a", " ", "b">>,
      Rep("a", MaxNameLen + 8),
      Rep("a", MaxNameLen - 1) \o <<" ", "b">>,
      <<" ">> \o Rep("a", MaxNameLen) \o <<"\t">>,
      Rep("a", MaxNameLen - 1) \o <<"D83D", "DE00">> }

\* WebSocket.readyState: broadcast tests for 1 (OPEN); the ws library's
\* CLOSING and CLOSED are the next two values.
OPEN == 1

CLOSING == OPEN + 1

CLOSED == OPEN + 2

VARIABLES
    created,          \* number of socket objects the server has accepted so far
    readyState,       \* ws.readyState of every created socket
    hooked,           \* sockets whose message/close/error handlers are registered
    clients,          \* const clients = new Set<WebSocket>()
    clientAgents,     \* const clientAgents = new Map<WebSocket, number>()
    agentReadyState,  \* const agentReadyState = new Map<number, boolean>()
    agentNames,       \* const agentNames = new Map<number, string>()
    travelMode,       \* let travelMode = false
    activeStreams,    \* const activeStreams = new Map<number, ActiveStream>()
    stopping,         \* stopStreamAndUpload calls suspended at an await
    hlsDirs,          \* the directories HLS_ROOT/<agentId> that exist
    recordings,       \* the files under RECORDINGS_ROOT that exist
    config,           \* SITE_URL and UPLOAD_API_KEY are both set
    phase,            \* the process: running, closing after a signal, exited
    broken,           \* open sockets whose connection no longer carries data
    event,            \* the event whose handler ran last
    sent,             \* the frames that handler wrote, in order
    renderer,         \* the desktop client's connect window: ws, isStreaming, ...
    overlayWindow,    \* main process: let overlayWindow: BrowserWindow | null
    overlayReady,     \* main process: let overlayReady = false
    pendingOverlayMessages,  \* main process: let pendingOverlayMessages = []
    overlayCreated,   \* main process: BrowserWindows made by createOverlayWindow
    overlayUpdates,   \* 'overlay-update' messages sent, each with its window
    arrived           \* 'update-overlay' messages received, each with the
                      \* overlay window and its readiness at that moment

vars == <<created, readyState, hooked, clients, clientAgents, agentReadyState,
          agentNames, travelMode, activeStreams, stopping, hlsDirs, recordings,
          config, phase, broken, event, sent,
          renderer, overlayWindow, overlayReady, pendingOverlayMessages,
          overlayCreated, overlayUpdates, arrived>>

state == <<clients, clientAgents, agentReadyState, agentNames, travelMode,
           activeStreams, stopping, hlsDirs, recordings>>

\* What no handler of a frame or of a socket event changes.
env == <<config, phase, broken>>

\* The desktop app: the variables of its connect window and main process.
app == <<renderer, overlayWindow, overlayReady, pendingOverlayMessages,
         overlayCreated, overlayUpdates, arrived>>

\* The connect window before connect(): no socket, not streaming, no
\* MediaRecorder, no reconnect timer.
RendererStart ==
    [ws |-> 0, isStreaming |-> FALSE, mediaRecorder |-> "null",
     reconnectTimer |-> FALSE, intentionalDisconnect |-> FALSE]

\* ---------------------------------------------------------------- helpers
\* Map.set / Map.delete on a function with a finite domain.
MapSet(m, k, v) == [x \in DOMAIN m \cup {k} |-> IF x = k THEN v ELSE m[x]]

MapDelete(m, k) == [x \in DOMAIN m \ {k} |-> m[x]]

EmptyMap == [x \in {} |-> 0]

\* The event a handler ran for: its kind, the socket it came from and what the
\* frame carried: the timestamp of a start_request (0 otherwise), the value of
\* a ready frame as !!value makes it (FALSE otherwise) and the name of a
\* set_name frame as String(name ?? '') makes it (empty otherwise); and for an
\* event of a transcoder, a timer or a fetch, the session it belongs to.
NoEvent == [type |-> "none", ws |-> 0, timestamp |-> 0, value |-> FALSE,
            name |-> << >>, session |-> <<0, 0>>]

Ev(type, ws) == [type |-> type, ws |-> ws, timestamp |-> 0, value |-> FALSE,
                 name |-> << >>, session |-> <<0, 0>>]

\* ---------------------------------------------------------------- frames
\* One entry of `sent`: a frame written by ws.send (kind "send") or by
\* broadcast (kind "broadcast"), with the sockets it was written to.
Send(ws, frame) == <<[kind |-> "send", to |-> {ws}, frame |-> frame]>>

\* ws.close(code, reason): the close frame written to the socket, recorded in
\* `sent` with kind "close".
wsClose(ws, code, reason) ==
    <<[kind |-> "close", to |-> {ws},
       frame |-> [type |-> "close", code |-> code, reason |-> reason]]>>

\* Faulty variant: the loop over the clients ends at the first client that
\* is not OPEN.
broadcastUntilClosed(cl, message) ==
    <<[kind |-> "broadcast",
       to |-> {client \in cl :
                 \A c \in cl : c <= client => readyState'[c] = OPEN},
       frame |-> message]>>

\* Faulty variant: the loop over the clients ends at the first write that
\* fails.
broadcastUntilFailure(cl, message) ==
    <<[kind |-> "broadcast",
       to |-> {client \in cl :
                 /\ readyState'[client] = OPEN
                 /\ \A b \in broken \cap cl : client <= b},
       frame |-> message]>>

\* broadcast(message): written to every client whose readyState is OPEN when
\* the handler runs (readyState' is the value the handler sees).
broadcast(cl, message) ==
    <<[kind |-> "broadcast",
       to |-> {client \in cl : readyState'[client] = OPEN},
       frame |-> message]>>

\* Faulty variant: the snapshot holds the occupied slots only.
getReadyStateSnapshotSparse(rs) == rs

getReadyStateSnapshot(rs) ==
    [i \in Slots |-> IF i \in DOMAIN rs THEN rs[i] ELSE FALSE]

getNameSnapshot(nm) ==
    [i \in Slots |-> IF i \in DOMAIN nm THEN nm[i] ELSE << >>]

ReadyStateMessage(rs, nm) ==
    [type |-> "ready_state", agents |-> getReadyStateSnapshot(rs),
     names |-> getNameSnapshot(nm)]

broadcastReadyState(cl, rs, nm) == broadcast(cl, ReadyStateMessage(rs, nm))

\* Faulty variant: any ready peer is enough.
areAnyConnectedReady == \E i \in DOMAIN agentReadyState : agentReadyState[i]

areAllConnectedReady ==
    /\ DOMAIN agentReadyState # {}
    /\ \A i \in DOMAIN agentReadyState : agentReadyState[i]

\* Faulty variant: scans the slots from the top.
getAvailableAgentIdFromTop ==
    IF \E i \in Slots : i \notin DOMAIN agentReadyState
    THEN CHOOSE i \in Slots :
            /\ i \notin DOMAIN agentReadyState
            /\ \A j \in Slots : j \notin DOMAIN agentReadyState => i >= j
    ELSE 0

\* Faulty variant: takes the number of occupied slots plus one.
getAvailableAgentIdBySize ==
    IF Cardinality(DOMAIN agentReadyState) < MAX_AGENTS
    THEN Cardinality(DOMAIN agentReadyState) + 1
    ELSE 0

\* null is modelled as 0: the callers test the result with !agentId.
getAvailableAgentId ==
    IF \E i \in Slots : i \notin DOMAIN agentReadyState
    THEN CHOOSE i \in Slots :
            /\ i \notin DOMAIN agentReadyState
            /\ \A j \in Slots : j \notin DOMAIN agentReadyState => i <= j
    ELSE 0

\* clientAgents.get(ws), undefined modelled as 0.
AgentOf(ws) == IF ws \in DOMAIN clientAgents THEN clientAgents[ws] ELSE 0

\* Faulty variant: the flags are left as they are.
ResetNoReady(rs) == rs

\* for (const [id] of agentReadyState) agentReadyState.set(id, false)
ResetAllReady(rs) == [i \in DOMAIN rs |-> FALSE]

\* Code units that String.prototype.trim strips: the space and the tab stand
\* for the WhiteSpace and LineTerminator code units.
WhiteSpace == {" ", "\t"}

\* String.prototype.trim on a sequence of UTF-16 code units.
RECURSIVE TrimStart(_)
TrimStart(n) ==
    IF n # << >> /\ Head(n) \in WhiteSpace THEN TrimStart(Tail(n)) ELSE n

RECURSIVE TrimEnd(_)
TrimEnd(n) ==
    IF n # << >> /\ n[Len(n)] \in WhiteSpace
    THEN TrimEnd(SubSeq(n, 1, Len(n) - 1))
    ELSE n

Trim(n) == TrimEnd(TrimStart(n))

\* Faulty variant: the name is cut to 32 code units before it is trimmed.
cleanNameSliceFirst(n) ==
    Trim(IF Len(n) > MaxNameLen THEN SubSeq(n, 1, MaxNameLen) ELSE n)

\* String(nameMsg.name ?? '').trim().slice(0, 32)
cleanName(n) ==
    LET t == Trim(n) IN IF Len(t) > MaxNameLen THEN SubSeq(t, 1, MaxNameLen) ELSE t

\* Faulty variant: the entries carry the current display name of the slot.
StreamEntriesByDisplayName(as) ==
    {[agentId |-> i,
      name |-> IF i \in DOMAIN agentNames THEN agentNames[i] ELSE as[i].agentName] :
        i \in DOMAIN as}

\* The streams of a stream_status frame: slot and session name (hlsUrl and
\* startedAt are left out).
StreamEntries(as) == {[agentId |-> i, name |-> as[i].agentName] : i \in DOMAIN as}

broadcastStreamStatus(cl, as) ==
    broadcast(cl, [type |-> "stream_status", streams |-> StreamEntries(as)])

ErrorFrame(message) == [type |-> "error", message |-> message]

\* ---------------------------------------------------------------- Init
Init ==
    /\ created = 0
    /\ readyState = EmptyMap
    /\ hooked = {}
    /\ clients = {}
    /\ clientAgents = EmptyMap
    /\ agentReadyState = EmptyMap
    /\ agentNames = EmptyMap
    /\ travelMode = FALSE
    /\ activeStreams = EmptyMap
    /\ stopping = << >>
    /\ hlsDirs = EmptyMap
    /\ recordings = EmptyMap
    /\ config = FALSE
    /\ phase = "running"
    /\ broken = {}
    /\ event = NoEvent
    /\ sent = << >>
    /\ renderer = RendererStart
    /\ overlayWindow = 0
    /\ overlayReady = FALSE
    /\ pendingOverlayMessages = << >>
    /\ overlayCreated = 0
    /\ overlayUpdates = << >>
    /\ arrived = << >>

\* ---------------------------------------------------------------- lifecycle
\* Faulty variant: ready_state is broadcast before agent_assigned is sent.
ConnectionAnnouncesFirst ==
    /\ LET ws == created + 1
           agentId == getAvailableAgentId
       IN  /\ created' = ws
           /\ IF Cardinality(clients) >= MAX_AGENTS
              THEN /\ readyState' = MapSet(readyState, ws, CLOSING)
                   /\ sent' = Send(ws, ErrorFrame("Server full (max 8 agents)"))
                              \o wsClose(ws, PolicyViolation, "Server full")
                   /\ event' = Ev("connection", ws)
                   /\ UNCHANGED <<hooked, clients, clientAgents, agentReadyState,
                                  agentNames>>
              ELSE IF agentId = 0
              THEN /\ readyState' = MapSet(readyState, ws, CLOSING)
                   /\ sent' = Send(ws, ErrorFrame("No available agent slots"))
                              \o wsClose(ws, PolicyViolation,
                                         "No available agent slots")
                   /\ event' = Ev("connection", ws)
                   /\ UNCHANGED <<hooked, clients, clientAgents, agentReadyState,
                                  agentNames>>
              ELSE /\ readyState' = MapSet(readyState, ws, OPEN)
                   /\ clients' = clients \cup {ws}
                   /\ clientAgents' = MapSet(clientAgents, ws, agentId)
                   /\ agentReadyState' = MapSet(agentReadyState, agentId, FALSE)
                   /\ agentNames' = MapSet(agentNames, agentId, << >>)
                   /\ hooked' = hooked \cup {ws}
                   /\ sent' =
                        broadcastReadyState(clients', agentReadyState', agentNames')
                        \o Send(ws, [type |-> "agent_assigned", agentId |-> agentId,
                                     agents |-> getReadyStateSnapshot(agentReadyState'),
                                     names |-> getNameSnapshot(agentNames')])
                   /\ event' = Ev("connection", ws)
    /\ UNCHANGED <<travelMode, activeStreams, stopping, hlsDirs, recordings>>
    /\ UNCHANGED env

\* Faulty variant: the limit is tested with > instead of >=.
ConnectionOffByOne ==
    /\ LET ws == created + 1
           agentId == getAvailableAgentId
       IN  /\ created' = ws
           /\ IF Cardinality(clients) > MAX_AGENTS
              THEN /\ readyState' = MapSet(readyState, ws, CLOSING)
                   /\ sent' = Send(ws, ErrorFrame("Server full (max 8 agents)"))
                              \o wsClose(ws, PolicyViolation, "Server full")
                   /\ event' = Ev("connection", ws)
                   /\ UNCHANGED <<hooked, clients, clientAgents, agentReadyState,
                                  agentNames>>
              ELSE IF agentId = 0
              THEN /\ readyState' = MapSet(readyState, ws, CLOSING)
                   /\ sent' = Send(ws, ErrorFrame("No available agent slots"))
                              \o wsClose(ws, PolicyViolation,
                                         "No available agent slots")
                   /\ event' = Ev("connection", ws)
                   /\ UNCHANGED <<hooked, clients, clientAgents, agentReadyState,
                                  agentNames>>
              ELSE /\ readyState' = MapSet(readyState, ws, OPEN)
                   /\ clients' = clients \cup {ws}
                   /\ clientAgents' = MapSet(clientAgents, ws, agentId)
                   /\ agentReadyState' = MapSet(agentReadyState, agentId, FALSE)
                   /\ agentNames' = MapSet(agentNames, agentId, << >>)
                   /\ hooked' = hooked \cup {ws}
                   /\ sent' =
                        Send(ws, [type |-> "agent_assigned", agentId |-> agentId,
                                  agents |-> getReadyStateSnapshot(agentReadyState'),
                                  names |-> getNameSnapshot(agentNames')])
                        \o broadcastReadyState(clients', agentReadyState', agentNames')
                   /\ event' = Ev("connection", ws)
    /\ UNCHANGED <<travelMode, activeStreams, stopping, hlsDirs, recordings>>
    /\ UNCHANGED env

\* fastify.get('/ws', ...): the connection handler, for a fresh socket.
Connection ==
    /\ LET ws == created + 1
           agentId == getAvailableAgentId
       IN  /\ created' = ws
           /\ IF Cardinality(clients) >= MAX_AGENTS
              THEN /\ readyState' = MapSet(readyState, ws, CLOSING)
                   /\ sent' = Send(ws, ErrorFrame("Server full (max 8 agents)"))
                              \o wsClose(ws, PolicyViolation, "Server full")
                   /\ event' = Ev("connection", ws)
                   /\ UNCHANGED <<hooked, clients, clientAgents, agentReadyState,
                                  agentNames>>
              ELSE IF agentId = 0
              THEN /\ readyState' = MapSet(readyState, ws, CLOSING)
                   /\ sent' = Send(ws, ErrorFrame("No available agent slots"))
                              \o wsClose(ws, PolicyViolation,
                                         "No available agent slots")
                   /\ event' = Ev("connection", ws)
                   /\ UNCHANGED <<hooked, clients, clientAgents, agentReadyState,
                                  agentNames>>
              ELSE /\ readyState' = MapSet(readyState, ws, OPEN)
                   /\ clients' = clients \cup {ws}
                   /\ clientAgents' = MapSet(clientAgents, ws, agentId)
                   /\ agentReadyState' = MapSet(agentReadyState, agentId, FALSE)
                   /\ agentNames' = MapSet(agentNames, agentId, << >>)
                   /\ hooked' = hooked \cup {ws}
                   /\ sent' =
                        Send(ws, [type |-> "agent_assigned", agentId |-> agentId,
                                  agents |-> getReadyStateSnapshot(agentReadyState'),
                                  names |-> getNameSnapshot(agentNames')])
                        \o broadcastReadyState(clients', agentReadyState', agentNames')
                   /\ event' = Ev("connection", ws)
    /\ UNCHANGED <<travelMode, activeStreams, stopping, hlsDirs, recordings>>
    /\ UNCHANGED env

\* The peer's side of the connection goes away (close frame received or the
\* TCP connection dropped): readyState leaves OPEN before 'close' is emitted.
PeerLeaves(ws) ==
    /\ ws \in hooked
    /\ readyState[ws] = OPEN
    /\ readyState' = [readyState EXCEPT ![ws] = CLOSING]
    /\ event' = Ev("peer_leaves", ws)
    /\ sent' = << >>
    /\ UNCHANGED state
    /\ UNCHANGED <<created, hooked, config, phase>>
    /\ broken' = broken \ {ws}

\* ---------------------------------------------------------------- pipeline
\* An ActiveStream.  id stands for the identity of the object (and of its
\* recordingPath, which carries the name and the start time); ffmpeg is
\* "running", "exited" (exitCode is set) or "signalled" (ended by a signal:
\* exitCode stays null); kills, sinkEnds and stdinEnds count the calls of
\* ffmpegProcess.kill, recordingStream.end and stdin.end; requests lists the
\* fetch calls of uploadToConvex; pc is the await the stop procedure is
\* suspended at ("active" before any stop); sink is "open" until the archive
\* write stream is destroyed by an error.
ActiveStream(id, agentId, agentName, startedAt) ==
    [id |-> id, agentId |-> agentId, agentName |-> agentName,
     startedAt |-> startedAt, totalBytes |-> 0, ffmpeg |-> "running",
     kills |-> 0, sinkEnds |-> 0, stdinEnds |-> 0, requests |-> << >>,
     pc |-> "active", sink |-> "open"]

\* The sessions that exist, active or being stopped.
LiveIds ==
    {activeStreams[a].id : a \in DOMAIN activeStreams}
        \cup {stopping[k].id : k \in 1..Len(stopping)}

\* Sessions that exist at once, active or being stopped.
Sessions == Cardinality(DOMAIN activeStreams) + Len(stopping)

\* The identity of a new ActiveStream object of the slot agentId: the slot
\* and the first number no existing session of the slot carries.
NewId(agentId) ==
    <<agentId, CHOOSE n \in 1..(Sessions + 1) :
                  /\ <<agentId, n>> \notin LiveIds
                  /\ \A j \in 1..(n - 1) : <<agentId, j>> \in LiveIds>>

\* Faulty variant: the upload starts whenever the archive file exists.
UploadStartsUnchecked(s) == s.id \in DOMAIN recordings

\* uploadToConvex(stream) up to its first fetch: TRUE iff the upload-url
\* request is issued, i.e. the store is configured and the archive file exists
\* and is not empty.
UploadStarts(s) ==
    /\ config
    /\ s.id \in DOMAIN recordings
    /\ recordings[s.id] > 0

\* The session once the upload-url request has been issued.
AwaitUploadUrl(s) == [s EXCEPT !.requests = <<"upload-url">>, !.pc = "url"]

\* The connection under an open socket stops carrying data (the peer's host
\* or the network is gone) without the server having noticed: readyState is
\* still OPEN, and what client.send writes from now on fails, which the
\* library reports later by closing the socket.
LinkBreaks(ws) ==
    /\ ws \in hooked
    /\ readyState[ws] = OPEN
    /\ ws \notin broken
    /\ broken' = broken \cup {ws}
    /\ event' = Ev("link_breaks", ws)
    /\ sent' = << >>
    /\ UNCHANGED state
    /\ UNCHANGED <<created, readyState, hooked, config, phase>>

\* Faulty variant: the session stays in activeStreams until the stop has
\* finished.
stopStreamAndUploadDeletesLate(agentId) ==
    IF agentId \notin DOMAIN activeStreams
    THEN [activeStreams |-> activeStreams, stopping |-> stopping,
          hlsDirs |-> hlsDirs, recordings |-> recordings, finished |-> FALSE]
    ELSE LET stream == activeStreams[agentId]
             ended == [stream EXCEPT
                          !.sinkEnds = IF stream.sink = "open" THEN @ + 1 ELSE @,
                          !.stdinEnds = IF stream.ffmpeg = "running" THEN @ + 1 ELSE @,
                          !.pc = "waiting"]
         IN  [activeStreams |-> activeStreams,
              stopping |-> Append(stopping, ended),
              hlsDirs |-> hlsDirs, recordings |-> recordings,
              finished |-> FALSE]

\* stopStreamAndUpload(agentId) from the call to its first await that
\* suspends: the session leaves activeStreams, its sinks are ended, and the
\* call waits for the transcoder.  When exitCode is already set the wait is
\* over at once and the call runs on, before any other handler, to the first
\* fetch or, when the upload is skipped, to its end (finished: the caller's
\* step ends with broadcastStreamStatus()).  stdin is destroyed once the
\* transcoder is gone.  Gives the new activeStreams, stopping, hlsDirs and
\* recordings.
stopStreamAndUpload(agentId) ==
    IF agentId \notin DOMAIN activeStreams
    THEN [activeStreams |-> activeStreams, stopping |-> stopping,
          hlsDirs |-> hlsDirs, recordings |-> recordings, finished |-> FALSE]
    ELSE LET stream == activeStreams[agentId]
             ended == [stream EXCEPT
                          !.sinkEnds = IF stream.sink = "open" THEN @ + 1 ELSE @,
                          !.stdinEnds = IF stream.ffmpeg = "running" THEN @ + 1 ELSE @,
                          !.pc = "waiting"]
         IN  IF stream.ffmpeg # "exited"
             THEN [activeStreams |-> MapDelete(activeStreams, agentId),
                   stopping |-> Append(stopping, ended),
                   hlsDirs |-> hlsDirs, recordings |-> recordings,
                   finished |-> FALSE]
             ELSE IF UploadStarts(ended)
             THEN [activeStreams |-> MapDelete(activeStreams, agentId),
                   stopping |-> Append(stopping, AwaitUploadUrl(ended)),
                   hlsDirs |-> hlsDirs, recordings |-> recordings,
                   finished |-> FALSE]
             ELSE [activeStreams |-> MapDelete(activeStreams, agentId),
                   stopping |-> stopping,
                   hlsDirs |-> MapDelete(hlsDirs, stream.agentId),
                   recordings |-> MapDelete(recordings, stream.id),
                   finished |-> TRUE]

\* Faulty variant: the slot's name is not deleted.
TeardownKeepsName(ws) ==
    LET disconnectedAgent == AgentOf(ws)
        stop == stopStreamAndUpload(disconnectedAgent)
    IN  /\ clients' = clients \ {ws}
        /\ IF disconnectedAgent # 0
           THEN /\ activeStreams' = stop.activeStreams
                /\ stopping' = stop.stopping
                /\ hlsDirs' = stop.hlsDirs
                /\ recordings' = stop.recordings
                /\ clientAgents' = MapDelete(clientAgents, ws)
                /\ agentReadyState' = MapDelete(agentReadyState, disconnectedAgent)
                /\ agentNames' = agentNames
                /\ sent' = broadcastReadyState(clients', agentReadyState', agentNames')
                           \o (IF stop.finished
                               THEN broadcastStreamStatus(clients', activeStreams')
                               ELSE << >>)
           ELSE /\ sent' = << >>
                /\ UNCHANGED <<clientAgents, agentReadyState, agentNames,
                               activeStreams, stopping, hlsDirs, recordings>>

\* Faulty variant: a streaming peer's slot is released only once its stop has
\* finished, so the handler leaves the slot, flag and name in place.
TeardownAwaitsStop(ws) ==
    LET disconnectedAgent == AgentOf(ws)
        stop == stopStreamAndUpload(disconnectedAgent)
    IN  /\ clients' = clients \ {ws}
        /\ IF disconnectedAgent # 0 /\ disconnectedAgent \in DOMAIN activeStreams
           THEN /\ activeStreams' = stop.activeStreams
                /\ stopping' = stop.stopping
                /\ hlsDirs' = stop.hlsDirs
                /\ recordings' = stop.recordings
                /\ sent' = << >>
                /\ UNCHANGED <<clientAgents, agentReadyState, agentNames>>
           ELSE IF disconnectedAgent # 0
           THEN /\ clientAgents' = MapDelete(clientAgents, ws)
                /\ agentReadyState' = MapDelete(agentReadyState, disconnectedAgent)
                /\ agentNames' = MapDelete(agentNames, disconnectedAgent)
                /\ sent' = broadcastReadyState(clients', agentReadyState', agentNames')
                /\ UNCHANGED <<activeStreams, stopping, hlsDirs, recordings>>
           ELSE /\ sent' = << >>
                /\ UNCHANGED <<clientAgents, agentReadyState, agentNames,
                               activeStreams, stopping, hlsDirs, recordings>>

\* Faulty variant: the socket's entry in clientAgents is left in place.
TeardownKeepsAgent(ws) ==
    LET disconnectedAgent == AgentOf(ws)
        stop == stopStreamAndUpload(disconnectedAgent)
    IN  /\ clients' = clients \ {ws}
        /\ IF disconnectedAgent # 0
           THEN /\ activeStreams' = stop.activeStreams
                /\ stopping' = stop.stopping
                /\ hlsDirs' = stop.hlsDirs
                /\ recordings' = stop.recordings
                /\ clientAgents' = clientAgents
                /\ agentReadyState' = MapDelete(agentReadyState, disconnectedAgent)
                /\ agentNames' = MapDelete(agentNames, disconnectedAgent)
                /\ sent' = broadcastReadyState(clients', agentReadyState', agentNames')
                           \o (IF stop.finished
                               THEN broadcastStreamStatus(clients', activeStreams')
                               ELSE << >>)
           ELSE /\ sent' = << >>
                /\ UNCHANGED <<clientAgents, agentReadyState, agentNames,
                               activeStreams, stopping, hlsDirs, recordings>>

\* The body shared by ws.on('close') and ws.on('error').
Teardown(ws) ==
    LET disconnectedAgent == AgentOf(ws)
        stop == stopStreamAndUpload(disconnectedAgent)
    IN  /\ clients' = clients \ {ws}
        /\ IF disconnectedAgent # 0
           THEN /\ activeStreams' = stop.activeStreams
                /\ stopping' = stop.stopping
                /\ hlsDirs' = stop.hlsDirs
                /\ recordings' = stop.recordings
                /\ clientAgents' = MapDelete(clientAgents, ws)
                /\ agentReadyState' = MapDelete(agentReadyState, disconnectedAgent)
                /\ agentNames' = MapDelete(agentNames, disconnectedAgent)
                /\ sent' = broadcastReadyState(clients', agentReadyState', agentNames')
                           \o (IF stop.finished
                               THEN broadcastStreamStatus(clients', activeStreams')
                               ELSE << >>)
           ELSE /\ sent' = << >>
                /\ UNCHANGED <<clientAgents, agentReadyState, agentNames,
                               activeStreams, stopping, hlsDirs, recordings>>

\* Faulty variant: travel mode ends when the last client has left.
CloseEndsTravel(ws) ==
    /\ ws \in hooked
    /\ readyState[ws] # CLOSED
    /\ readyState' = [readyState EXCEPT ![ws] = CLOSED]
    /\ Teardown(ws)
    /\ event' = Ev("close", ws)
    /\ travelMode' = (travelMode /\ clients' # {})
    /\ UNCHANGED <<created, hooked, config, phase>>
    /\ broken' = broken \ {ws}

\* ws.on('close', ...)
Close(ws) ==
    /\ ws \in hooked
    /\ readyState[ws] # CLOSED
    /\ readyState' = [readyState EXCEPT ![ws] = CLOSED]
    /\ Teardown(ws)
    /\ event' = Ev("close", ws)
    /\ UNCHANGED <<created, hooked, travelMode, config, phase>>
    /\ broken' = broken \ {ws}

\* ws.on('error', ...): the library closes the socket after emitting 'error'.
Error(ws) ==
    /\ ws \in hooked
    /\ readyState[ws] # CLOSED
    /\ readyState' = [readyState EXCEPT ![ws] = CLOSING]
    /\ Teardown(ws)
    /\ event' = Ev("error", ws)
    /\ UNCHANGED <<created, hooked, travelMode, config, phase>>
    /\ broken' = broken \ {ws}

\* A 'close' or an 'error' event emitted for a socket that is CLOSED already:
\* the listeners are never removed, so the handler runs again.
SocketEventAgain(ws, type) ==
    /\ ws \in hooked
    /\ readyState[ws] = CLOSED
    /\ Teardown(ws)
    /\ event' = Ev(type, ws)
    /\ UNCHANGED <<created, readyState, hooked, travelMode>>
    /\ UNCHANGED env

\* ---------------------------------------------------------------- frames in
\* ws.on('message', ...) fires for a socket whose handlers are registered and
\* that has not been torn down; buffered frames are still delivered while the
\* socket is CLOSING.
Receive(ws, ev) ==
    /\ ws \in hooked
    /\ ws \in clients
    /\ readyState[ws] \in {OPEN, CLOSING}
    /\ event' = ev
    /\ UNCHANGED <<created, readyState, hooked>>
    /\ UNCHANGED env

\* Faulty variant: the value is stored for every occupied slot.
ReadySetsEveryone(ws, value) ==
    /\ Receive(ws, [Ev("ready", ws) EXCEPT !.value = value])
    /\ LET agentId == AgentOf(ws)
       IN  IF agentId = 0
           THEN /\ sent' = << >>
                /\ UNCHANGED agentReadyState
           ELSE /\ agentReadyState' = [i \in DOMAIN agentReadyState |-> value]
                /\ sent' = broadcastReadyState(clients, agentReadyState', agentNames)
    /\ UNCHANGED <<clients, clientAgents, agentNames, travelMode, activeStreams,
                   stopping, hlsDirs, recordings>>

\* case 'ready'
Ready(ws, value) ==
    /\ Receive(ws, [Ev("ready", ws) EXCEPT !.value = value])
    /\ LET agentId == AgentOf(ws)
       IN  IF agentId = 0
           THEN /\ sent' = << >>
                /\ UNCHANGED agentReadyState
           ELSE /\ agentReadyState' = MapSet(agentReadyState, agentId, value)
                /\ sent' = broadcastReadyState(clients, agentReadyState', agentNames)
    /\ UNCHANGED <<clients, clientAgents, agentNames, travelMode, activeStreams,
                   stopping, hlsDirs, recordings>>

\* case 'set_name'
SetName(ws, name) ==
    /\ Receive(ws, [Ev("set_name", ws) EXCEPT !.name = name])
    /\ LET agentId == AgentOf(ws)
       IN  IF agentId = 0
           THEN /\ sent' = << >>
                /\ UNCHANGED agentNames
           ELSE /\ agentNames' = MapSet(agentNames, agentId, cleanName(name))
                /\ sent' = broadcastReadyState(clients, agentReadyState, agentNames')
    /\ UNCHANGED <<clients, clientAgents, agentReadyState, travelMode,
                   activeStreams, stopping, hlsDirs, recordings>>

\* Faulty variant: the refusal is broadcast.
RejectStartToAll(ws) ==
    broadcast(clients, ErrorFrame("All connected users must be Ready to start"))

\* The refusal of a start_request: ws.send to the sender.
RejectStart(ws) ==
    Send(ws, ErrorFrame("All connected users must be Ready to start"))

\* Faulty variant: the start frame goes out before the countdown.
StartBeforeCountdown(timestamp, agentId) ==
    broadcast(clients, [type |-> "start", timestamp |-> timestamp,
                        starterAgentId |-> agentId])
    \o broadcast(clients, [type |-> "countdown", timestamp |-> timestamp,
                           duration |-> countdownDuration])

\* Faulty variant: the frames carry the server's clock.
CountdownWithServerClock(timestamp, agentId) ==
    LET now == CHOOSE t \in ServerClock : TRUE
    IN  broadcast(clients, [type |-> "countdown", timestamp |-> now,
                            duration |-> countdownDuration])
        \o broadcast(clients, [type |-> "start", timestamp |-> now,
                               starterAgentId |-> agentId])

\* The two broadcasts of an honoured start_request.
CountdownAndStart(timestamp, agentId) ==
    broadcast(clients, [type |-> "countdown", timestamp |-> timestamp,
                        duration |-> countdownDuration])
    \o broadcast(clients, [type |-> "start", timestamp |-> timestamp,
                           starterAgentId |-> agentId])

\* Faulty variant: an honoured start_request clears the ready flags.
StartRequestClearsReady(ws, timestamp) ==
    /\ Receive(ws, [Ev("start_request", ws) EXCEPT !.timestamp = timestamp])
    /\ LET agentId == AgentOf(ws)
       IN  IF agentId = 0
           THEN sent' = << >> /\ UNCHANGED agentReadyState
           ELSE IF ~areAllConnectedReady
           THEN sent' = RejectStart(ws) /\ UNCHANGED agentReadyState
           ELSE /\ sent' = CountdownAndStart(timestamp, agentId)
                /\ agentReadyState' = [i \in DOMAIN agentReadyState |-> FALSE]
    /\ UNCHANGED <<clients, clientAgents, agentNames, travelMode, activeStreams,
                   stopping, hlsDirs, recordings>>

\* case 'start_request'
StartRequest(ws, timestamp) ==
    /\ Receive(ws, [Ev("start_request", ws) EXCEPT !.timestamp = timestamp])
    /\ LET agentId == AgentOf(ws)
       IN  IF agentId = 0
           THEN sent' = << >>
           ELSE IF ~areAllConnectedReady
           THEN sent' = RejectStart(ws)
           ELSE sent' = CountdownAndStart(timestamp, agentId)
    /\ UNCHANGED <<clients, clientAgents, agentReadyState, agentNames, travelMode,
                   activeStreams, stopping, hlsDirs, recordings>>

\* case 'travel_request'
TravelRequest(ws) ==
    /\ Receive(ws, Ev("travel_request", ws))
    /\ IF AgentOf(ws) = 0
       THEN /\ sent' = << >>
            /\ UNCHANGED <<agentReadyState, travelMode>>
       ELSE /\ agentReadyState' = ResetAllReady(agentReadyState)
            /\ travelMode' = TRUE
            /\ sent' = broadcast(clients, [type |-> "travel_mode", active |-> TRUE])
                       \o broadcastReadyState(clients, agentReadyState', agentNames)
    /\ UNCHANGED <<clients, clientAgents, agentNames, activeStreams, stopping, hlsDirs, recordings>>

\* Faulty variant: travel mode is not checked.
ExecuteTravelUnchecked(ws) ==
    /\ Receive(ws, Ev("execute_travel", ws))
    /\ IF AgentOf(ws) = 0
       THEN /\ sent' = << >>
            /\ UNCHANGED <<agentReadyState, travelMode>>
       ELSE /\ travelMode' = FALSE
            /\ agentReadyState' = ResetAllReady(agentReadyState)
            /\ sent' = broadcast(clients, [type |-> "execute_travel"])
                       \o broadcast(clients, [type |-> "travel_mode", active |-> FALSE])
                       \o broadcastReadyState(clients, agentReadyState', agentNames)
    /\ UNCHANGED <<clients, clientAgents, agentNames, activeStreams, stopping, hlsDirs, recordings>>

\* Faulty variant: the flags set during travel mode survive the travel.
ExecuteTravelKeepsReady(ws) ==
    /\ Receive(ws, Ev("execute_travel", ws))
    /\ IF AgentOf(ws) = 0
       THEN /\ sent' = << >>
            /\ UNCHANGED <<agentReadyState, travelMode>>
       ELSE IF ~travelMode
       THEN /\ sent' = Send(ws, ErrorFrame("Not in travel mode"))
            /\ UNCHANGED <<agentReadyState, travelMode>>
       ELSE /\ travelMode' = FALSE
            /\ UNCHANGED agentReadyState
            /\ sent' = broadcast(clients, [type |-> "execute_travel"])
                       \o broadcast(clients, [type |-> "travel_mode", active |-> FALSE])
                       \o broadcastReadyState(clients, agentReadyState', agentNames)
    /\ UNCHANGED <<clients, clientAgents, agentNames, activeStreams, stopping, hlsDirs, recordings>>

\* case 'execute_travel'
ExecuteTravel(ws) ==
    /\ Receive(ws, Ev("execute_travel", ws))
    /\ IF AgentOf(ws) = 0
       THEN /\ sent' = << >>
            /\ UNCHANGED <<agentReadyState, travelMode>>
       ELSE IF ~travelMode
       THEN /\ sent' = Send(ws, ErrorFrame("Not in travel mode"))
            /\ UNCHANGED <<agentReadyState, travelMode>>
       ELSE /\ travelMode' = FALSE
            /\ agentReadyState' = ResetAllReady(agentReadyState)
            /\ sent' = broadcast(clients, [type |-> "execute_travel"])
                       \o broadcast(clients, [type |-> "travel_mode", active |-> FALSE])
                       \o broadcastReadyState(clients, agentReadyState', agentNames)
    /\ UNCHANGED <<clients, clientAgents, agentNames, activeStreams, stopping, hlsDirs, recordings>>

\* Faulty variant: the reset frame goes out before travel_mode.
ResetRaidResetFirst(ws) ==
    /\ Receive(ws, Ev("reset_raid", ws))
    /\ travelMode' = FALSE
    /\ agentReadyState' = ResetAllReady(agentReadyState)
    /\ sent' = broadcast(clients, [type |-> "reset"])
               \o broadcast(clients, [type |-> "travel_mode", active |-> FALSE])
               \o broadcastReadyState(clients, agentReadyState', agentNames)
    /\ UNCHANGED <<clients, clientAgents, agentNames, activeStreams, stopping, hlsDirs, recordings>>

\* Faulty variant: reset_raid flips the travel mode instead of clearing it.
ResetRaidTogglesTravel(ws) ==
    /\ Receive(ws, Ev("reset_raid", ws))
    /\ travelMode' = ~travelMode
    /\ agentReadyState' = ResetAllReady(agentReadyState)
    /\ sent' = broadcast(clients, [type |-> "travel_mode", active |-> travelMode'])
               \o broadcast(clients, [type |-> "reset"])
               \o broadcastReadyState(clients, agentReadyState', agentNames)
    /\ UNCHANGED <<clients, clientAgents, agentNames, activeStreams, stopping, hlsDirs, recordings>>

\* case 'reset_raid' (no check of the sender's slot)
ResetRaid(ws) ==
    /\ Receive(ws, Ev("reset_raid", ws))
    /\ travelMode' = FALSE
    /\ agentReadyState' = ResetAllReady(agentReadyState)
    /\ sent' = broadcast(clients, [type |-> "travel_mode", active |-> FALSE])
               \o broadcast(clients, [type |-> "reset"])
               \o broadcastReadyState(clients, agentReadyState', agentNames)
    /\ UNCHANGED <<clients, clientAgents, agentNames, activeStreams, stopping, hlsDirs, recordings>>

\* startStreamPipeline(agentId, agentName): the live directory is wiped and
\* made anew, the transcoder is spawned, the archive file is opened and the
\* session is put into activeStreams.  Gives the new activeStreams, hlsDirs
\* and recordings; a directory maps to the number of chunks transcoded into
\* it, a file to the number of chunks written to it.
startStreamPipeline(agentId, agentName) ==
    LET stream == ActiveStream(NewId(agentId), agentId, agentName,
                               CHOOSE now \in ServerClock : TRUE)
    IN  [activeStreams |-> MapSet(activeStreams, agentId, stream),
         hlsDirs |-> MapSet(hlsDirs, agentId, 0),
         recordings |-> MapSet(recordings, stream.id, 0)]

\* Faulty variant: the pipeline is started without looking for a session.
StreamStartUnchecked(ws) ==
    /\ Receive(ws, Ev("stream_start", ws))
    /\ LET agentId == AgentOf(ws)
           started == startStreamPipeline(agentId,
                         IF agentId \in DOMAIN agentNames THEN agentNames[agentId]
                         ELSE <<"A", "g", "e", "n", "t", "_">>)
       IN  IF agentId = 0
           THEN /\ sent' = << >>
                /\ UNCHANGED <<activeStreams, hlsDirs, recordings>>
           ELSE /\ activeStreams' = started.activeStreams
                /\ hlsDirs' = started.hlsDirs
                /\ recordings' = started.recordings
                /\ sent' = broadcastStreamStatus(clients, activeStreams')
    /\ UNCHANGED <<clients, clientAgents, agentReadyState, agentNames, travelMode,
                   stopping>>

\* case 'stream_start'
StreamStart(ws) ==
    /\ Receive(ws, Ev("stream_start", ws))
    /\ LET agentId == AgentOf(ws)
           started == startStreamPipeline(agentId,
                         IF agentId \in DOMAIN agentNames THEN agentNames[agentId]
                         ELSE <<"A", "g", "e", "n", "t", "_">>)
       IN  IF agentId = 0
           THEN /\ sent' = << >>
                /\ UNCHANGED <<activeStreams, hlsDirs, recordings>>
           ELSE IF agentId \in DOMAIN activeStreams
           THEN /\ sent' = Send(ws, ErrorFrame("Already streaming"))
                /\ UNCHANGED <<activeStreams, hlsDirs, recordings>>
           ELSE /\ activeStreams' = started.activeStreams
                /\ hlsDirs' = started.hlsDirs
                /\ recordings' = started.recordings
                /\ sent' = broadcastStreamStatus(clients, activeStreams')
    /\ UNCHANGED <<clients, clientAgents, agentReadyState, agentNames, travelMode,
                   stopping>>

\* Faulty variant: without a session the stop still cleans up and reports.
StreamStopWithoutSession(ws) ==
    /\ Receive(ws, Ev("stream_stop", ws))
    /\ LET agentId == AgentOf(ws)
           stop == stopStreamAndUpload(agentId)
       IN  IF agentId = 0
           THEN /\ sent' = << >>
                /\ UNCHANGED <<activeStreams, stopping, hlsDirs, recordings>>
           ELSE /\ activeStreams' = stop.activeStreams
                /\ stopping' = stop.stopping
                /\ hlsDirs' = MapDelete(stop.hlsDirs, agentId)
                /\ recordings' = stop.recordings
                /\ sent' = IF stop.finished \/ agentId \notin DOMAIN activeStreams
                           THEN broadcastStreamStatus(clients, activeStreams')
                           ELSE << >>
    /\ UNCHANGED <<clients, clientAgents, agentReadyState, agentNames, travelMode>>

\* case 'stream_stop'
StreamStop(ws) ==
    /\ Receive(ws, Ev("stream_stop", ws))
    /\ LET agentId == AgentOf(ws)
           stop == stopStreamAndUpload(agentId)
       IN  IF agentId = 0
           THEN /\ sent' = << >>
                /\ UNCHANGED <<activeStreams, stopping, hlsDirs, recordings>>
           ELSE /\ activeStreams' = stop.activeStreams
                /\ stopping' = stop.stopping
                /\ hlsDirs' = stop.hlsDirs
                /\ recordings' = stop.recordings
                /\ sent' = IF stop.finished
                           THEN broadcastStreamStatus(clients, activeStreams')
                           ELSE << >>
    /\ UNCHANGED <<clients, clientAgents, agentReadyState, agentNames, travelMode>>

\* Faulty variant: the pong goes to every client.
PingAnswersAll(ws, now) ==
    /\ Receive(ws, Ev("ping", ws))
    /\ sent' = broadcast(clients, [type |-> "pong", timestamp |-> now])
    /\ UNCHANGED state

\* case 'ping': the pong carries the server's clock.
Ping(ws, now) ==
    /\ Receive(ws, Ev("ping", ws))
    /\ sent' = Send(ws, [type |-> "pong", timestamp |-> now])
    /\ UNCHANGED state

\* Faulty variant: a frame that cannot be handled closes the connection.
IgnoredCloses(ws, type) ==
    /\ ws \in hooked
    /\ ws \in clients
    /\ readyState[ws] \in {OPEN, CLOSING}
    /\ event' = Ev(type, ws)
    /\ readyState' = [readyState EXCEPT ![ws] = CLOSING]
    /\ sent' = wsClose(ws, 1003, "Unsupported frame")
    /\ UNCHANGED <<created, hooked>>
    /\ UNCHANGED env
    /\ UNCHANGED state

\* default: an unknown type; and the catch of a frame that is not JSON.
Ignored(ws, type) ==
    /\ Receive(ws, Ev(type, ws))
    /\ sent' = << >>
    /\ UNCHANGED state

\* Faulty variant: the chunk is written by slot, whether or not the slot has
\* an active session.
handleVideoChunkBySlot(ws) ==
    LET agentId == AgentOf(ws)
    IN  [activeStreams |->
             IF agentId \in DOMAIN activeStreams
             THEN [activeStreams EXCEPT ![agentId].totalBytes = @ + 1]
             ELSE activeStreams,
         hlsDirs |->
             IF agentId \in DOMAIN hlsDirs
             THEN [hlsDirs EXCEPT ![agentId] = @ + 1]
             ELSE hlsDirs,
         recordings |->
             [id \in DOMAIN recordings |->
                 IF id[1] = agentId THEN recordings[id] + 1 ELSE recordings[id]]]

\* Faulty variant: the byte counter advances only when the chunk was written
\* to the transcoder and to the archive file.
handleVideoChunkCountsWritten(ws) ==
    LET agentId == AgentOf(ws)
        stream == activeStreams[agentId]
    IN  IF agentId = 0 \/ agentId \notin DOMAIN activeStreams
        THEN [activeStreams |-> activeStreams, hlsDirs |-> hlsDirs,
              recordings |-> recordings]
        ELSE [activeStreams |->
                  IF stream.ffmpeg = "running" /\ stream.sink = "open"
                  THEN [activeStreams EXCEPT ![agentId].totalBytes = @ + 1]
                  ELSE activeStreams,
              hlsDirs |->
                  IF stream.ffmpeg = "running" /\ agentId \in DOMAIN hlsDirs
                  THEN [hlsDirs EXCEPT ![agentId] = @ + 1]
                  ELSE hlsDirs,
              recordings |->
                  IF stream.sink = "open" /\ stream.id \in DOMAIN recordings
                  THEN [recordings EXCEPT ![stream.id] = @ + 1]
                  ELSE recordings]

\* handleVideoChunk(ws, chunk): a chunk counts as one byte.  The chunk goes to
\* the transcoder while its stdin is not destroyed (what the transcoder makes
\* of it lands in the live directory, if that still exists) and to the
\* archive file while the write stream is not destroyed; the byte counter
\* advances either way.
handleVideoChunk(ws) ==
    LET agentId == AgentOf(ws)
        stream == activeStreams[agentId]
    IN  IF agentId = 0 \/ agentId \notin DOMAIN activeStreams
        THEN [activeStreams |-> activeStreams, hlsDirs |-> hlsDirs,
              recordings |-> recordings]
        ELSE [activeStreams |->
                  [activeStreams EXCEPT ![agentId].totalBytes = @ + 1],
              hlsDirs |->
                  IF stream.ffmpeg = "running" /\ agentId \in DOMAIN hlsDirs
                  THEN [hlsDirs EXCEPT ![agentId] = @ + 1]
                  ELSE hlsDirs,
              recordings |->
                  IF stream.sink = "open" /\ stream.id \in DOMAIN recordings
                  THEN [recordings EXCEPT ![stream.id] = @ + 1]
                  ELSE recordings]

\* ws.on('message') with isBinary
VideoChunk(ws) ==
    /\ Receive(ws, Ev("binary", ws))
    /\ sent' = << >>
    /\ activeStreams' = handleVideoChunk(ws).activeStreams
    /\ hlsDirs' = handleVideoChunk(ws).hlsDirs
    /\ recordings' = handleVideoChunk(ws).recordings
    /\ UNCHANGED <<clients, clientAgents, agentReadyState, agentNames, travelMode,
                   stopping>>

\* ffmpeg.on('close') and ffmpeg.on('error') of an active session: the
\* transcoder ends on its own, with an exit code or by a signal; the handlers
\* log.
TranscoderExits(agentId, how) ==
    /\ agentId \in DOMAIN activeStreams
    /\ activeStreams[agentId].ffmpeg = "running"
    /\ activeStreams' = [activeStreams EXCEPT ![agentId].ffmpeg = how]
    /\ event' = [Ev("transcoder_exit", 0) EXCEPT !.session = activeStreams[agentId].id]
    /\ sent' = << >>
    /\ UNCHANGED <<clients, clientAgents, agentReadyState, agentNames, travelMode,
                   stopping, hlsDirs, recordings>>
    /\ UNCHANGED <<created, readyState, hooked>>
    /\ UNCHANGED env

\* recordingStream.on('error') of an active session: a write to the archive
\* file failed; the handler logs and the write stream is destroyed.
RecordingFails(agentId) ==
    /\ agentId \in DOMAIN activeStreams
    /\ activeStreams[agentId].sink = "open"
    /\ activeStreams' = [activeStreams EXCEPT ![agentId].sink = "destroyed"]
    /\ event' = [Ev("recording_error", 0) EXCEPT !.session = activeStreams[agentId].id]
    /\ sent' = << >>
    /\ UNCHANGED <<clients, clientAgents, agentReadyState, agentNames, travelMode,
                   stopping, hlsDirs, recordings>>
    /\ UNCHANGED <<created, readyState, hooked>>
    /\ UNCHANGED env

Without(seq, k) == SubSeq(seq, 1, k - 1) \o SubSeq(seq, k + 1, Len(seq))

\* stopStreamAndUpload from the end of uploadToConvex on: the live directory
\* and the archive file are removed and broadcastStreamStatus() is called.
StopFinish(k) ==
    /\ stopping' = Without(stopping, k)
    /\ hlsDirs' = MapDelete(hlsDirs, stopping[k].agentId)
    /\ recordings' = MapDelete(recordings, stopping[k].id)
    /\ sent' = broadcastStreamStatus(clients, activeStreams)

\* stopStreamAndUpload once its wait for the transcoder is over, the session
\* being then s: uploadToConvex issues its first request or returns at once,
\* and then the stop finishes in the same step.
AfterWait(k, s) ==
    IF UploadStarts(s)
    THEN /\ stopping' = [stopping EXCEPT ![k] = AwaitUploadUrl(s)]
         /\ sent' = << >>
         /\ UNCHANGED <<hlsDirs, recordings>>
    ELSE StopFinish(k)

\* ffmpegProcess.on('close') inside stopStreamAndUpload: the transcoder ends
\* while the stop waits for it.
TranscoderCloses(k) ==
    /\ k \in 1..Len(stopping)
    /\ stopping[k].pc = "waiting"
    /\ stopping[k].ffmpeg = "running"
    /\ UNCHANGED <<created, readyState, hooked>>
    /\ AfterWait(k, [stopping[k] EXCEPT !.ffmpeg = "exited"])
    /\ event' = [Ev("transcoder_close", 0) EXCEPT !.session = stopping[k].id]
    /\ UNCHANGED <<clients, clientAgents, agentReadyState, agentNames, travelMode,
                   activeStreams>>
    /\ UNCHANGED env

\* The 10 s timer of stopStreamAndUpload fires: SIGKILL, then the stop goes on.
KillTimeout(k) ==
    /\ k \in 1..Len(stopping)
    /\ stopping[k].pc = "waiting"
    /\ UNCHANGED <<created, readyState, hooked>>
    /\ AfterWait(k, [stopping[k] EXCEPT !.kills = @ + 1])
    /\ event' = [Ev("kill_timeout", 0) EXCEPT !.session = stopping[k].id]
    /\ UNCHANGED <<clients, clientAgents, agentReadyState, agentNames, travelMode,
                   activeStreams>>
    /\ UNCHANGED env

\* A fetch of uploadToConvex settles: ok is a 2xx response whose body parses,
\* anything else makes uploadToConvex throw, which stopStreamAndUpload catches
\* and logs.
Response(k, ok) ==
    /\ k \in 1..Len(stopping)
    /\ stopping[k].pc \in {"url", "put", "save"}
    /\ UNCHANGED <<created, readyState, hooked>>
    /\ IF ok /\ stopping[k].pc = "url"
       THEN /\ stopping' = [stopping EXCEPT
                               ![k].requests = Append(@, "upload"),
                               ![k].pc = "put"]
            /\ sent' = << >>
            /\ UNCHANGED <<hlsDirs, recordings>>
       ELSE IF ok /\ stopping[k].pc = "put"
       THEN /\ stopping' = [stopping EXCEPT
                               ![k].requests = Append(@, "save"),
                               ![k].pc = "save"]
            /\ sent' = << >>
            /\ UNCHANGED <<hlsDirs, recordings>>
       ELSE StopFinish(k)
    /\ event' = [Ev("response", 0) EXCEPT !.session = stopping[k].id, !.value = ok]
    /\ UNCHANGED <<clients, clientAgents, agentReadyState, agentNames, travelMode,
                   activeStreams>>
    /\ UNCHANGED env

\* ---------------------------------------------------------------- shutdown
\* process.on('SIGINT' | 'SIGTERM'): shutdown() starts fastify.close().
Shutdown ==
    /\ phase = "running"
    /\ phase' = "closing"
    /\ event' = Ev("signal", 0)
    /\ sent' = << >>
    /\ UNCHANGED state
    /\ UNCHANGED <<created, readyState, hooked, config, broken>>

\* shutdown() after its await: fastify.close() has settled, and the finally
\* clause calls process.exit(0).
Exit ==
    /\ phase = "closing"
    /\ phase' = "exited"
    /\ event' = Ev("exit", 0)
    /\ sent' = << >>
    /\ UNCHANGED state
    /\ UNCHANGED <<created, readyState, hooked, config, broken>>

\* ---------------------------------------------------------------- Next
\* Bounds on what the environment does, as guards on the events it raises.
MayLeave(ws) ==
    \/ ws \in hooked /\ readyState[ws] # OPEN
    \/ Cardinality({c \in hooked : readyState[c] # OPEN}) < MaxDepartures

MayHalfClose == Cardinality({c \in clients : readyState[c] # OPEN}) < MaxHalfClosed

MayStream(ws) == AgentOf(ws) \in DOMAIN activeStreams \/ Sessions < MaxSessions

\* The frames of the protocol other than stream_start, sent by the socket ws.
PoolFrame(ws) ==
    \/ \E value \in BOOLEAN : Ready(ws, value)
    \/ \E name \in NameInputs : SetName(ws, name)
    \/ \E timestamp \in Timestamps : StartRequest(ws, timestamp)
    \/ TravelRequest(ws)
    \/ ExecuteTravel(ws)
    \/ ResetRaid(ws)
    \/ StreamStop(ws)
    \/ \E now \in ServerClock : Ping(ws, now)
    \/ \E type \in {"unknown", "invalid_json"} : Ignored(ws, type)
    \/ AgentOf(ws) \notin DOMAIN activeStreams /\ VideoChunk(ws)

\* Every frame of the protocol.
Frame(ws) ==
    \/ PoolFrame(ws)
    \/ MayStream(ws) /\ StreamStart(ws)

\* A few peers that run the whole protocol: the sockets in Talkers send
\* frames and leave, a later socket only connects and stays.
Next ==
    \/ UNCHANGED app /\ created < MaxPeers /\ Connection
    \/ UNCHANGED app /\ \E ws \in Talkers : MayHalfClose /\ PeerLeaves(ws)
    \/ UNCHANGED app /\ \E ws \in Talkers : Close(ws)
    \/ UNCHANGED app /\ \E ws \in Talkers : Error(ws)
    \/ UNCHANGED app /\ \E ws \in Talkers : Frame(ws)
    \/ UNCHANGED app /\ \E k \in 1..MaxSessions : TranscoderCloses(k)

Spec == Init /\ [][Next]_vars

\* A server that fills up: MaxSockets connections, any socket may leave, and
\* the first socket sends frames.
NextPool ==
    \/ UNCHANGED app /\ created < MaxSockets /\ Connection
    \/ UNCHANGED app /\ \E ws \in Sockets : MayLeave(ws) /\ Close(ws)
    \/ UNCHANGED app /\ \E ws \in Sockets : MayLeave(ws) /\ Error(ws)
    \/ UNCHANGED app /\ PoolFrame(1)

SpecPool == Init /\ [][NextPool]_vars

\* Peers that name themselves: every socket sends set_name with names around
\* the length limit, and leaves.
NextNames ==
    \/ UNCHANGED app /\ created < MaxNamePeers /\ Connection
    \/ UNCHANGED app /\ \E ws \in 1..MaxNamePeers : \E name \in LongNameInputs : SetName(ws, name)
    \/ UNCHANGED app /\ \E ws \in 1..MaxNamePeers : Close(ws)
    \/ UNCHANGED app /\ \E ws \in 1..MaxNamePeers : Error(ws)

SpecNames == Init /\ [][NextNames]_vars

\* Peers that stream: every socket starts and stops its pipeline, sends
\* chunks and leaves, while stop procedures run.
NextStreams ==
    \/ UNCHANGED app /\ created < MaxStreamPeers /\ Connection
    \/ UNCHANGED app /\ \E ws \in 1..MaxStreamPeers :
          /\ AgentOf(ws) \in DOMAIN activeStreams \/ Sessions < MaxStreamSessions
          /\ StreamStart(ws)
    \/ UNCHANGED app /\ \E ws \in 1..MaxStreamPeers : StreamStop(ws)
    \/ UNCHANGED app /\ \E ws \in 1..MaxStreamPeers :
          AgentOf(ws) \notin DOMAIN activeStreams /\ VideoChunk(ws)
    \/ UNCHANGED app /\ \E ws \in 1..MaxStreamPeers : Close(ws)
    \/ UNCHANGED app /\ \E ws \in 1..MaxStreamPeers : Error(ws)
    \/ UNCHANGED app /\ \E k \in 1..MaxStreamSessions : TranscoderCloses(k)

SpecStreams == Init /\ [][NextStreams]_vars

\* Socket events in any order: a socket's 'error' and 'close' fire one after
\* the other or again after the socket has closed, while later sockets take
\* over the slot, set flag and name and stream.
NextEvents ==
    \/ UNCHANGED app /\ created < MaxEventPeers /\ Connection
    \/ UNCHANGED app /\ \E ws \in 1..MaxEventPeers : Ready(ws, TRUE)
    \/ UNCHANGED app /\ \E ws \in 1..MaxEventPeers : \E name \in NameInputs : SetName(ws, name)
    \/ UNCHANGED app /\ \E ws \in 1..MaxEventPeers :
          /\ AgentOf(ws) \in DOMAIN activeStreams \/ Sessions < MaxEventSessions
          /\ StreamStart(ws)
    \/ UNCHANGED app /\ \E ws \in 1..MaxEventPeers : Close(ws)
    \/ UNCHANGED app /\ \E ws \in 1..MaxEventPeers : Error(ws)
    \/ UNCHANGED app /\ \E ws \in 1..MaxEventPeers : \E type \in {"close", "error"} :
          SocketEventAgain(ws, type)
    \/ UNCHANGED app /\ \E k \in 1..MaxEventSessions : TranscoderCloses(k)

SpecEvents == Init /\ [][NextEvents]_vars

\* The pipeline in full: peers start and stop streams, send chunks and leave;
\* transcoders end on their own, by the end of their input or by the kill
\* timer; uploads succeed or fail; the process is told to shut down.  The
\* store is configured or not.  Nothing runs once the process has exited, no
\* connection is accepted and no peer starts a stream after the signal.
InitPipeline ==
    /\ created = 0
    /\ readyState = EmptyMap
    /\ hooked = {}
    /\ clients = {}
    /\ clientAgents = EmptyMap
    /\ agentReadyState = EmptyMap
    /\ agentNames = EmptyMap
    /\ travelMode = FALSE
    /\ activeStreams = EmptyMap
    /\ stopping = << >>
    /\ hlsDirs = EmptyMap
    /\ recordings = EmptyMap
    /\ config \in BOOLEAN
    /\ phase = "running"
    /\ broken = {}
    /\ event = NoEvent
    /\ sent = << >>
    /\ renderer = RendererStart
    /\ overlayWindow = 0
    /\ overlayReady = FALSE
    /\ pendingOverlayMessages = << >>
    /\ overlayCreated = 0
    /\ overlayUpdates = << >>
    /\ arrived = << >>

RECURSIVE SumBytes(_)
SumBytes(seq) == IF seq = << >> THEN 0 ELSE Head(seq).totalBytes + SumBytes(Tail(seq))

\* The chunks written so far to the sessions that exist.
BytesHeld ==
    LET RECURSIVE Active(_)
        Active(slots) ==
            IF slots = {} THEN 0
            ELSE LET a == CHOOSE a \in slots : TRUE
                 IN  activeStreams[a].totalBytes + Active(slots \ {a})
    IN  Active(DOMAIN activeStreams) + SumBytes(stopping)

MayChunk(ws) == AgentOf(ws) \notin DOMAIN activeStreams \/ BytesHeld < MaxBytes

NextPipeline ==
    \/ UNCHANGED app /\ created < MaxPipePeers /\ Connection
    \/ UNCHANGED app /\ \E ws \in Streamers :
          /\ AgentOf(ws) \in DOMAIN activeStreams \/ Sessions < MaxPipeSessions
          /\ StreamStart(ws)
    \/ UNCHANGED app /\ \E ws \in Streamers : StreamStop(ws)
    \/ UNCHANGED app /\ \E ws \in Streamers : MayChunk(ws) /\ VideoChunk(ws)
    \/ UNCHANGED app /\ \E ws \in Streamers : Close(ws)
    \/ UNCHANGED app /\ \E ws \in Streamers : Error(ws)
    \/ UNCHANGED app /\ \E agentId \in Slots : \E how \in {"exited", "signalled"} :
          TranscoderExits(agentId, how)
    \/ UNCHANGED app /\ \E k \in 1..MaxPipeSessions : TranscoderCloses(k)
    \/ UNCHANGED app /\ \E k \in 1..MaxPipeSessions : KillTimeout(k)
    \/ UNCHANGED app /\ \E k \in 1..MaxPipeSessions : \E ok \in BOOLEAN : Response(k, ok)

SpecPipeline == InitPipeline /\ [][NextPipeline]_vars

\* One streaming peer whose writes fail: the transcoder ends or the archive
\* write stream is destroyed while the session is active and chunks keep
\* arriving.
MayChunkOn(ws) == AgentOf(ws) \notin DOMAIN activeStreams \/ BytesHeld < MaxChunkBytes

NextChunks ==
    \/ UNCHANGED app /\ created < MaxChunkPeers /\ Connection
    \/ UNCHANGED app /\ \E ws \in 1..MaxChunkPeers :
          /\ AgentOf(ws) \in DOMAIN activeStreams \/ Sessions < MaxChunkSessions
          /\ StreamStart(ws)
    \/ UNCHANGED app /\ \E ws \in 1..MaxChunkPeers : StreamStop(ws)
    \/ UNCHANGED app /\ \E ws \in 1..MaxChunkPeers : MayChunkOn(ws) /\ VideoChunk(ws)
    \/ UNCHANGED app /\ \E ws \in 1..MaxChunkPeers : Close(ws)
    \/ UNCHANGED app /\ \E ws \in 1..MaxChunkPeers : Error(ws)
    \/ UNCHANGED app /\ \E agentId \in Slots : \E how \in {"exited", "signalled"} : TranscoderExits(agentId, how)
    \/ UNCHANGED app /\ \E agentId \in Slots : RecordingFails(agentId)
    \/ UNCHANGED app /\ \E k \in 1..MaxChunkSessions : TranscoderCloses(k)
    \/ UNCHANGED app /\ \E k \in 1..MaxChunkSessions : KillTimeout(k)

SpecChunks == Init /\ [][NextChunks]_vars

\* Peers that rename themselves while they stream: sessions start, are
\* stopped and uploaded while the display names change or are deleted.
NextNamedStreams ==
    \/ UNCHANGED app /\ created < MaxNamedPeers /\ Connection
    \/ UNCHANGED app /\ \E ws \in 1..MaxNamedPeers : \E name \in NameInputs : SetName(ws, name)
    \/ UNCHANGED app /\ \E ws \in 1..MaxNamedPeers :
          /\ AgentOf(ws) \in DOMAIN activeStreams \/ Sessions < MaxNamedSessions
          /\ StreamStart(ws)
    \/ UNCHANGED app /\ \E ws \in 1..MaxNamedPeers : StreamStop(ws)
    \/ UNCHANGED app /\ \E ws \in 1..MaxNamedPeers : MayChunk(ws) /\ VideoChunk(ws)
    \/ UNCHANGED app /\ \E ws \in 1..MaxNamedPeers : Close(ws)
    \/ UNCHANGED app /\ \E k \in 1..MaxNamedSessions : TranscoderCloses(k)
    \/ UNCHANGED app /\ \E k \in 1..MaxNamedSessions : \E ok \in BOOLEAN : Response(k, ok)

SpecNamedStreams == InitPipeline /\ [][NextNamedStreams]_vars

\* A server that is told to shut down while a peer streams: the peers stay
\* and stream until the signal, after which no connection is accepted and no
\* stream started, the sockets close, and the stop procedures run on until
\* the process has exited.
Alive == phase # "exited"

NextShutdown ==
    \/ UNCHANGED app /\ phase = "running" /\ created < MaxPipePeers /\ Connection
    \/ UNCHANGED app /\ \E ws \in Streamers : phase = "running" /\ StreamStart(ws)
    \/ UNCHANGED app /\ \E ws \in Streamers : Alive /\ MayChunk(ws) /\ VideoChunk(ws)
    \/ UNCHANGED app /\ \E ws \in 1..MaxPipePeers : phase = "closing" /\ Close(ws)
    \/ UNCHANGED app /\ \E agentId \in Slots : \E how \in {"exited", "signalled"} :
          Alive /\ TranscoderExits(agentId, how)
    \/ UNCHANGED app /\ \E k \in 1..MaxPipeSessions : Alive /\ TranscoderCloses(k)
    \/ UNCHANGED app /\ \E k \in 1..MaxPipeSessions : Alive /\ KillTimeout(k)
    \/ UNCHANGED app /\ \E k \in 1..MaxPipeSessions : \E ok \in BOOLEAN : Alive /\ Response(k, ok)
    \/ UNCHANGED app /\ Shutdown
    \/ UNCHANGED app /\ Exit

SpecShutdown == InitPipeline /\ [][NextShutdown]_vars

\* Peers whose connections break: every socket may lose its connection and
\* is closed later, while the sockets in Talkers go on sending frames.
NextLinks ==
    \/ UNCHANGED app /\ created < MaxLinkPeers /\ Connection
    \/ UNCHANGED app /\ \E ws \in 1..MaxLinkPeers :
          Cardinality(broken) < MaxBroken /\ LinkBreaks(ws)
    \/ UNCHANGED app /\ \E ws \in 1..MaxLinkPeers : ws \in broken /\ Close(ws)
    \/ UNCHANGED app /\ \E ws \in 1..MaxLinkPeers : ws \in broken /\ Error(ws)
    \/ UNCHANGED app /\ \E ws \in Talkers : PoolFrame(ws)

SpecLinks == Init /\ [][NextLinks]_vars

\* ---------------------------------------------------------------- desktop client
\* The main process's variables, which the connect window does not touch.
mainProc == <<overlayWindow, overlayReady, pendingOverlayMessages,
              overlayCreated, overlayUpdates, arrived>>

\* A step of the desktop app in which the server handles nothing.
ServerIdle(type) ==
    /\ event' = Ev(type, 0)
    /\ sent' = << >>
    /\ UNCHANGED state
    /\ UNCHANGED <<created, readyState, hooked>>
    /\ UNCHANGED env

\* connect(): the reconnect timer is cleared, intentionalDisconnect is reset
\* and a new WebSocket is opened, which the server accepts.  Called by the
\* join button and by the reconnect timer.
connect ==
    /\ renderer.ws = 0
    /\ Connection
    /\ renderer' = [renderer EXCEPT !.ws = created + 1,
                                     !.reconnectTimer = FALSE,
                                     !.intentionalDisconnect = FALSE]
    /\ UNCHANGED mainProc

\* startStreaming(): capture started, a fresh MediaRecorder set up and
\* started, stream_start sent.
startStreaming ==
    /\ ~renderer.isStreaming
    /\ renderer.ws # 0
    /\ StreamStart(renderer.ws)
    /\ renderer' = [renderer EXCEPT !.isStreaming = TRUE,
                                     !.mediaRecorder = "recording"]
    /\ UNCHANGED mainProc

\* recorder.ondataavailable, the branch that sends: the chunk goes to the
\* server as a binary frame.
ondataavailable ==
    /\ renderer.mediaRecorder = "recording"
    /\ renderer.isStreaming
    /\ renderer.ws # 0
    /\ VideoChunk(renderer.ws)
    /\ UNCHANGED renderer
    /\ UNCHANGED mainProc

\* stopStreaming(): stream_stop is sent if the socket is open, and the
\* capture with its MediaRecorder is stopped (no local recording runs).
stopStreaming ==
    /\ renderer.isStreaming
    /\ IF renderer.ws # 0 THEN StreamStop(renderer.ws) ELSE ServerIdle("stop_streaming")
    /\ renderer' = [renderer EXCEPT !.isStreaming = FALSE,
                                     !.mediaRecorder = "null"]
    /\ UNCHANGED mainProc

\* ws.onclose after the connection was lost: ws is cleared and the reconnect
\* timer is set; isStreaming and the MediaRecorder are left as they are.
onclose ==
    /\ renderer.ws # 0
    /\ ServerIdle("client_onclose")
    /\ renderer' = [renderer EXCEPT !.ws = 0, !.reconnectTimer = TRUE]
    /\ UNCHANGED mainProc

\* disconnect(): the disconnect button.  stopStreaming() if a stream runs,
\* the timer cleared, the socket closed and forgotten; ws.onclose then sees
\* intentionalDisconnect and sets no timer.
disconnect ==
    /\ renderer.ws # 0
    /\ IF renderer.isStreaming
       THEN StreamStop(renderer.ws)
       ELSE ServerIdle("client_disconnect")
    /\ renderer' = [ws |-> 0, isStreaming |-> FALSE, mediaRecorder |-> "null",
                    reconnectTimer |-> FALSE, intentionalDisconnect |-> TRUE]
    /\ UNCHANGED mainProc

\* One desktop client and the server: the client connects, streams, loses
\* its connection and reconnects by its timer, or is disconnected by its
\* user; the server sees the close of a socket after the client has.
NextApp ==
    \/ created < MaxAppSockets /\ connect
    \/ (AgentOf(renderer.ws) \in DOMAIN activeStreams \/ Sessions < MaxAppSessions)
          /\ startStreaming
    \/ MayChunk(renderer.ws) /\ ondataavailable
    \/ stopStreaming
    \/ onclose
    \/ disconnect
    \/ UNCHANGED app /\ \E ws \in 1..MaxAppSockets : ws # renderer.ws /\ Close(ws)
    \/ UNCHANGED app /\ \E k \in 1..MaxAppSessions : TranscoderCloses(k)

SpecApp == Init /\ [][NextApp]_vars

\* ---------------------------------------------------------------- main process
\* A step of the main process: the connect window's variables and the server
\* are untouched.
MainProcessStep(type) ==
    /\ ServerIdle(type)
    /\ UNCHANGED renderer

\* createOverlayWindow(): the flag and the queue are reset and a new
\* BrowserWindow starts loading the overlay page.
createOverlayWindow ==
    /\ overlayReady' = FALSE
    /\ pendingOverlayMessages' = << >>
    /\ overlayCreated' = overlayCreated + 1
    /\ overlayWindow' = overlayCreated + 1
    /\ UNCHANGED <<overlayUpdates, arrived>>

\* app.whenReady(): the windows are created once, at startup.
whenReady ==
    /\ overlayCreated = 0
    /\ createOverlayWindow
    /\ MainProcessStep("when_ready")

\* ipcMain.on('show-overlay'): a window is created only if there is none.
showOverlay ==
    /\ overlayCreated > 0
    /\ IF overlayWindow = 0
       THEN createOverlayWindow
       ELSE UNCHANGED mainProc
    /\ MainProcessStep("show_overlay")

\* The messages of a queue, sent to window w one after another.
SendAll(w, queue) == [i \in 1..Len(queue) |-> [window |-> w, msg |-> queue[i]]]

\* The same, last message first.
SendAllReversed(w, queue) ==
    [i \in 1..Len(queue) |-> [window |-> w, msg |-> queue[Len(queue) + 1 - i]]]

\* A did-finish-load handler that sends the queue last message first.
didFinishLoadReversed ==
    /\ overlayWindow # 0
    /\ ~overlayReady
    /\ overlayReady' = TRUE
    /\ overlayUpdates' = overlayUpdates \o SendAllReversed(overlayWindow, pendingOverlayMessages)
    /\ pendingOverlayMessages' = << >>
    /\ UNCHANGED <<overlayWindow, overlayCreated, arrived>>
    /\ MainProcessStep("did_finish_load")

\* overlayWindow.webContents.on('did-finish-load'): the window is ready, the
\* queued messages are sent in the order of the queue, the queue is emptied.
didFinishLoad ==
    /\ overlayWindow # 0
    /\ ~overlayReady
    /\ overlayReady' = TRUE
    /\ overlayUpdates' = overlayUpdates \o SendAll(overlayWindow, pendingOverlayMessages)
    /\ pendingOverlayMessages' = << >>
    /\ UNCHANGED <<overlayWindow, overlayCreated, arrived>>
    /\ MainProcessStep("did_finish_load")

\* overlayWindow.on('closed'): the window is forgotten and the queue dropped.
closed ==
    /\ overlayWindow # 0
    /\ overlayWindow' = 0
    /\ overlayReady' = FALSE
    /\ pendingOverlayMessages' = << >>
    /\ UNCHANGED <<overlayCreated, overlayUpdates, arrived>>
    /\ MainProcessStep("overlay_closed")

\* ipcMain.on('update-overlay'): with a ready window the message is sent,
\* with a loading window it is queued, with no window nothing happens.  The
\* message is named by its number of arrival.
updateOverlay ==
    /\ overlayCreated > 0
    /\ LET data == Len(arrived) + 1 IN
       /\ arrived' = Append(arrived, [msg |-> data, window |-> overlayWindow,
                                       ready |-> overlayReady])
       /\ IF overlayWindow # 0
          THEN IF overlayReady
               THEN /\ overlayUpdates' = Append(overlayUpdates,
                                               [window |-> overlayWindow, msg |-> data])
                    /\ UNCHANGED pendingOverlayMessages
               ELSE /\ pendingOverlayMessages' = Append(pendingOverlayMessages, data)
                    /\ UNCHANGED overlayUpdates
          ELSE UNCHANGED <<pendingOverlayMessages, overlayUpdates>>
    /\ UNCHANGED <<overlayWindow, overlayReady, overlayCreated>>
    /\ MainProcessStep("update_overlay")

\* The main process and its overlay window: the window is created at startup
\* and on 'show-overlay', finishes loading, is closed; 'update-overlay'
\* messages arrive at any moment after startup.
NextOverlay ==
    \/ whenReady
    \/ overlayCreated < MaxOverlayWindows /\ showOverlay
    \/ didFinishLoad
    \/ closed
    \/ Len(arrived) < MaxOverlayMessages /\ updateOverlay

SpecOverlay == Init /\ [][NextOverlay]_vars


\* ---------------------------------------------------------------- properties
\* The slots held by the attached peers.
Occupied == {AgentOf(c) : c \in clients}

\* The frames of the last handler, without their recipients.
Frames == [i \in 1..Len(sent) |-> sent[i].frame]

\* C1: an admitted attach gets the lowest-numbered slot in 1..8 that no
\* attached peer holds when the connection handler runs.
C1_LowestFreeSlot ==
    [][(event'.type = "connection" /\ event'.ws \in clients')
         => LET id == clientAgents'[event'.ws]
            IN  /\ id \in Slots
                /\ id \notin Occupied
                /\ \A j \in 1..(id - 1) : j \in Occupied]_vars

\* A socket was admitted into a hole: a peer with a higher slot is attached.
C1_Witness ==
    /\ event.type = "connection"
    /\ event.ws \in clients
    /\ \E c \in clients : AgentOf(c) > AgentOf(event.ws)

\* C2: attached peers hold pairwise different slots, each holds one slot in
\* 1..8, and at most 8 peers are attached.
C2_UniqueSlots ==
    /\ \A c \in clients : c \in DOMAIN clientAgents /\ clientAgents[c] \in Slots
    /\ \A c, d \in clients : c # d => AgentOf(c) # AgentOf(d)
    /\ Cardinality(clients) <= 8

\* Eight peers are attached and a ninth connection has just been refused.
C2_Witness ==
    /\ Cardinality(clients) = 8
    /\ event.type = "connection"
    /\ event.ws \notin clients

\* C3: after every handled event the keys of the ready-flag map, the keys of
\* the name map and the slots of the attached peers are the same set.
C3_KeySetsAgree ==
    /\ DOMAIN agentReadyState = DOMAIN agentNames
    /\ DOMAIN agentReadyState = Occupied

\* A peer has just been torn down while others stay attached.
C3_Witness ==
    /\ event.type \in {"close", "error"}
    /\ event.ws \notin clients
    /\ Cardinality(clients) >= 2
    /\ sent # << >>

\* Every attached peer's flag is true and there is at least one attached peer.
AllReady ==
    /\ clients # {}
    /\ \A c \in clients :
          /\ AgentOf(c) \in DOMAIN agentReadyState
          /\ agentReadyState[AgentOf(c)]

\* The clients a broadcast of the handler that runs next is written to.
OpenClients == {c \in clients : readyState[c] = OPEN}

HasType(frames, type) == \E i \in 1..Len(frames) : frames[i].frame.type = type

NotReadyError ==
    [type |-> "error", message |-> "All connected users must be Ready to start"]

\* C4: a countdown or start frame is written only by a start_request handled
\* while at least one slot is occupied and every occupied slot is ready; a
\* start_request handled in any other state writes neither.
C4_CountdownOnlyWhenAllReady ==
    [][/\ (HasType(sent', "countdown") \/ HasType(sent', "start"))
            => (event'.type = "start_request" /\ AllReady)
       /\ (event'.type = "start_request" /\ ~AllReady)
            => (~HasType(sent', "countdown") /\ ~HasType(sent', "start"))]_vars

\* Two attached peers, both ready, and a start_request was honoured.
C4_Witness ==
    /\ event.type = "start_request"
    /\ HasType(sent, "countdown")
    /\ Cardinality(clients) = 2
    /\ AllReady

\* C5: a start_request handled while not all attached peers are ready writes
\* exactly one frame, the error for the sender alone, and leaves the ready
\* flags, the names, the travel mode and the pipeline sessions as they were.
C5_RejectedStartRequest ==
    [][(event'.type = "start_request" /\ ~AllReady)
         => /\ sent' = <<[kind |-> "send", to |-> {event'.ws}, frame |-> NotReadyError]>>
            /\ UNCHANGED <<agentReadyState, agentNames, travelMode, activeStreams,
                           stopping>>]_vars

\* A start_request was refused while one of two peers was ready.
C5_Witness ==
    /\ event.type = "start_request"
    /\ Frames = <<NotReadyError>>
    /\ Cardinality(clients) = 2
    /\ \E c \in clients : agentReadyState[AgentOf(c)]
    /\ \E c \in clients : ~agentReadyState[AgentOf(c)]

\* C6: in the frames a handler writes, every countdown is directly followed
\* by the start frame of the same request, broadcast to the same peers.
C6_CountdownThenStart ==
    \A i \in 1..Len(sent) :
        sent[i].frame.type = "countdown"
          => /\ i < Len(sent)
             /\ sent[i].kind = "broadcast"
             /\ sent[i + 1].kind = "broadcast"
             /\ sent[i + 1].frame.type = "start"
             /\ sent[i + 1].frame.timestamp = sent[i].frame.timestamp
             /\ sent[i + 1].frame.starterAgentId = AgentOf(event.ws)
             /\ sent[i + 1].to = sent[i].to
             /\ sent[i].to = OpenClients

\* A countdown was broadcast to two open peers.
C6_Witness ==
    /\ HasType(sent, "countdown")
    /\ Cardinality(sent[1].to) = 2

\* C7: an honoured start_request with timestamp t from the peer at slot s
\* writes countdown {t, 3000} and then start {t, s}.
C7_EchoesTimestampAndSlot ==
    [][(event'.type = "start_request" /\ AllReady)
         => /\ Len(sent') = 2
            /\ sent'[1].frame = [type |-> "countdown", timestamp |-> event'.timestamp,
                                 duration |-> 3000]
            /\ sent'[2].frame = [type |-> "start", timestamp |-> event'.timestamp,
                                 starterAgentId |-> clientAgents[event'.ws]]]_vars

\* The second scenario of the specification: slot 2 starts with timestamp 5000.
C7_Witness ==
    /\ event.type = "start_request"
    /\ Frames = <<[type |-> "countdown", timestamp |-> 5000, duration |-> 3000],
                  [type |-> "start", timestamp |-> 5000, starterAgentId |-> 2]>>

\* C8: an honoured start_request leaves every ready flag, every name and the
\* travel mode as they were, so a start_request that directly follows an
\* honoured one is honoured too, with its own timestamp and sender slot.
C8_StartLeavesStateAlone ==
    [][/\ (event'.type = "start_request" /\ AllReady)
            => /\ UNCHANGED <<agentReadyState, agentNames, travelMode>>
               /\ AllReady'
       /\ (/\ event.type = "start_request" /\ HasType(sent, "countdown")
           /\ event'.type = "start_request")
            => /\ Len(sent') = 2
               /\ sent'[1].frame.type = "countdown"
               /\ sent'[1].frame.timestamp = event'.timestamp
               /\ sent'[2].frame.type = "start"
               /\ sent'[2].frame.timestamp = event'.timestamp
               /\ sent'[2].frame.starterAgentId = clientAgents[event'.ws]]_vars

\* Slot 1 was honoured with timestamp 1000 while slot 2 is attached, open and
\* ready: the state between two back-to-back requests.
C8_Witness ==
    /\ event.type = "start_request"
    /\ event.timestamp = 1000
    /\ HasType(sent, "countdown")
    /\ AgentOf(event.ws) = 1
    /\ \E c \in OpenClients : AgentOf(c) = 2 /\ agentReadyState[2]
    /\ travelMode

AllFalse == [i \in Slots |-> FALSE]

\* C9: travel_request clears every occupied slot's flag, sets the travel mode
\* and broadcasts travel_mode {active: true} directly followed by an all-false
\* ready_state; whenever the travel mode goes from false to true every flag
\* is false afterwards.
C9_TravelRequestClearsReady ==
    [][/\ event'.type = "travel_request"
            => /\ travelMode'
               /\ DOMAIN agentReadyState' = DOMAIN agentReadyState
               /\ \A i \in DOMAIN agentReadyState' : ~agentReadyState'[i]
               /\ UNCHANGED agentNames
               /\ sent' = <<[kind |-> "broadcast", to |-> OpenClients,
                             frame |-> [type |-> "travel_mode", active |-> TRUE]],
                            [kind |-> "broadcast", to |-> OpenClients,
                             frame |-> [type |-> "ready_state", agents |-> AllFalse,
                                        names |-> getNameSnapshot(agentNames)]]>>
       /\ (~travelMode /\ travelMode')
            => \A i \in DOMAIN agentReadyState' : ~agentReadyState'[i]]_vars

\* travel_request was handled with two peers attached.
C9_Witness ==
    /\ event.type = "travel_request"
    /\ travelMode
    /\ Cardinality(clients) = 2
    /\ Len(sent) = 2

NotInTravelModeError == [type |-> "error", message |-> "Not in travel mode"]

\* C10: execute_travel handled outside travel mode writes one frame, the
\* error for the sender alone, and leaves the ready flags and the travel mode
\* as they were.
C10_ExecuteTravelRefused ==
    [][(event'.type = "execute_travel" /\ ~travelMode)
         => /\ sent' = <<[kind |-> "send", to |-> {event'.ws},
                          frame |-> NotInTravelModeError]>>
            /\ UNCHANGED <<agentReadyState, travelMode>>]_vars

\* execute_travel was refused while a peer was ready.
C10_Witness ==
    /\ event.type = "execute_travel"
    /\ Frames = <<NotInTravelModeError>>
    /\ ~travelMode
    /\ \E i \in DOMAIN agentReadyState : agentReadyState[i]

\* A handler's broadcast of `frame`, as it is recorded in `sent`.
Broadcast(to, frame) == [kind |-> "broadcast", to |-> to, frame |-> frame]

\* C11: execute_travel handled in travel mode broadcasts execute_travel, then
\* travel_mode {active: false}, then an all-false ready_state and nothing
\* else; afterwards the travel mode is off and every flag is false, whatever
\* the flags were.
C11_ExecuteTravelSequence ==
    [][(event'.type = "execute_travel" /\ travelMode)
         => /\ sent' = <<Broadcast(OpenClients, [type |-> "execute_travel"]),
                         Broadcast(OpenClients, [type |-> "travel_mode",
                                                 active |-> FALSE]),
                         Broadcast(OpenClients,
                                   [type |-> "ready_state", agents |-> AllFalse,
                                    names |-> getNameSnapshot(agentNames)])>>
            /\ ~travelMode'
            /\ DOMAIN agentReadyState' = DOMAIN agentReadyState
            /\ \A i \in DOMAIN agentReadyState' : ~agentReadyState'[i]
            /\ UNCHANGED <<agentNames, clients, clientAgents>>]_vars

\* The travel was executed with two peers attached.
C11_Witness ==
    /\ event.type = "execute_travel"
    /\ Len(sent) = 3
    /\ sent[1].frame.type = "execute_travel"
    /\ Cardinality(clients) = 2
    /\ ~travelMode

\* C12: reset_raid, in any state, turns the travel mode off and every
\* occupied slot's flag to false, leaves the names and the occupied slots as
\* they were, and broadcasts travel_mode {active: false}, reset and
\* ready_state, in that order and nothing else.
C12_ResetRaid ==
    [][event'.type = "reset_raid"
         => /\ ~travelMode'
            /\ DOMAIN agentReadyState' = DOMAIN agentReadyState
            /\ \A i \in DOMAIN agentReadyState' : ~agentReadyState'[i]
            /\ UNCHANGED <<agentNames, clients, clientAgents>>
            /\ Occupied' = Occupied
            /\ sent' = <<Broadcast(OpenClients, [type |-> "travel_mode",
                                                 active |-> FALSE]),
                         Broadcast(OpenClients, [type |-> "reset"]),
                         Broadcast(OpenClients,
                                   [type |-> "ready_state", agents |-> AllFalse,
                                    names |-> getNameSnapshot(agentNames)])>>]_vars

\* reset_raid was handled while one of two attached peers was half closed.
C12_Witness ==
    /\ event.type = "reset_raid"
    /\ Len(sent) = 3
    /\ Cardinality(clients) = 2
    /\ Cardinality(sent[1].to) = 1

\* C13: a reset_raid handled directly after a reset_raid leaves the flags, the
\* names, the travel mode and the attached peers with their slots as the
\* first left them, and broadcasts the same three frames again.
C13_ResetRaidIdempotent ==
    [][(event.type = "reset_raid" /\ event'.type = "reset_raid")
         => /\ UNCHANGED <<agentReadyState, agentNames, travelMode, clients,
                           clientAgents>>
            /\ Len(sent') = 3
            /\ sent' = sent]_vars

\* The state between two reset_raid frames: the raid was reset by the peer at
\* slot 2 while the peer at slot 1 has a name.
C13_Witness ==
    /\ event.type = "reset_raid"
    /\ AgentOf(event.ws) = 2
    /\ 1 \in DOMAIN agentNames /\ agentNames[1] # << >>
    /\ Len(sent) = 3
    /\ sent[3].frame.names[1] # << >>

ServerFullError == [type |-> "error", message |-> "Server full (max 8 agents)"]

\* C14: a connection handled while 8 peers are attached writes one frame, the
\* "Server full" error, to the new socket alone and closes that socket with
\* code 1008; the socket is not attached then or later, the attached peers,
\* their slots, flags and names stay as they were, and nothing is broadcast.
C14_ServerFullRefusal ==
    [][/\ (event'.type = "connection" /\ Cardinality(clients) = 8)
            => /\ Len(sent') = 2
               /\ sent'[1] = [kind |-> "send", to |-> {event'.ws},
                              frame |-> ServerFullError]
               /\ sent'[2].kind = "close"
               /\ sent'[2].to = {event'.ws}
               /\ sent'[2].frame.code = 1008
               /\ readyState'[event'.ws] # OPEN
               /\ event'.ws \notin clients'
               /\ event'.ws \notin DOMAIN clientAgents'
               /\ Occupied' = Occupied
               /\ UNCHANGED <<clients, clientAgents, agentReadyState, agentNames>>
       /\ \A c \in 1..created : c \notin hooked => c \notin clients']_vars

\* The ninth connection was refused with the error and the close code.
C14_Witness ==
    /\ event.type = "connection"
    /\ Cardinality(clients) = 8
    /\ Len(sent) = 2
    /\ sent[1].frame = ServerFullError
    /\ sent[2].frame.code = 1008
    /\ event.ws \notin clients

\* C15: an admitted connection leaves the new peer's flag false and its name
\* empty, writes agent_assigned with the peer's slot to the new socket alone
\* as the first frame, and then broadcasts ready_state to the attached peers,
\* the new one included.
C15_AdmittedAttach ==
    [][(event'.type = "connection" /\ event'.ws \in clients')
         => LET ws == event'.ws
                id == clientAgents'[ws]
            IN  /\ agentReadyState'[id] = FALSE
                /\ agentNames'[id] = << >>
                /\ Len(sent') = 2
                /\ sent'[1].kind = "send"
                /\ sent'[1].to = {ws}
                /\ sent'[1].frame.type = "agent_assigned"
                /\ sent'[1].frame.agentId = id
                /\ sent'[2].kind = "broadcast"
                /\ sent'[2].frame.type = "ready_state"
                /\ sent'[2].to = OpenClients \cup {ws}
                /\ sent'[2].frame.agents[id] = FALSE
                /\ sent'[2].frame.names[id] = << >>]_vars

\* A later socket was admitted into slot 1, which the first socket had held,
\* next to another attached peer.
C15_Witness ==
    /\ event.type = "connection"
    /\ event.ws \in clients
    /\ event.ws > 1
    /\ AgentOf(event.ws) = 1
    /\ Cardinality(clients) >= 2
    /\ Len(sent) = 2
    /\ Cardinality(sent[2].to) >= 2

\* C16: every agent_assigned and ready_state frame carries an agents map and a
\* names map whose keys are exactly 1..8; an occupied slot maps to its flag
\* and name as the handler that wrote the frame left them, an unoccupied slot
\* to false and the empty name.
C16_SnapshotsCoverAllSlots ==
    \A i \in 1..Len(sent) :
        sent[i].frame.type \in {"agent_assigned", "ready_state"}
          => LET f == sent[i].frame
             IN  /\ DOMAIN f.agents = 1..8
                 /\ DOMAIN f.names = 1..8
                 /\ \A s \in 1..8 :
                       IF s \in Occupied
                       THEN /\ f.agents[s] = agentReadyState[s]
                            /\ f.names[s] = agentNames[s]
                       ELSE /\ f.agents[s] = FALSE
                            /\ f.names[s] = << >>

\* A ready_state was broadcast that shows a ready peer, a named peer and free
\* slots.
C16_Witness ==
    \E i \in 1..Len(sent) :
        /\ sent[i].frame.type = "ready_state"
        /\ \E s \in Occupied : sent[i].frame.agents[s]
        /\ \E s \in Occupied : sent[i].frame.names[s] # << >>
        /\ Cardinality(Occupied) = 2

\* C17: the close or error handler of an attached peer at slot s removes the
\* peer, deletes the slot's flag and name, leaves s free for the next
\* connection and broadcasts a ready_state showing false and the empty name
\* for s to the remaining peers, all in the one step; a pipeline session of
\* the peer whose transcoder is running is only handed to the stop procedure,
\* which is still pending when the step ends.
C17_TeardownInOneStep ==
    [][(event'.type \in {"close", "error"} /\ event'.ws \in clients)
         => LET ws == event'.ws
                s == clientAgents[ws]
            IN  /\ clients' = clients \ {ws}
                /\ ws \notin DOMAIN clientAgents'
                /\ s \notin DOMAIN agentReadyState'
                /\ s \notin DOMAIN agentNames'
                /\ s \notin Occupied'
                /\ getAvailableAgentId' \in 1..s
                /\ Len(sent') >= 1
                /\ sent'[1].kind = "broadcast"
                /\ sent'[1].to = OpenClients \ {ws}
                /\ sent'[1].frame.type = "ready_state"
                /\ sent'[1].frame.agents[s] = FALSE
                /\ sent'[1].frame.names[s] = << >>
                /\ s \notin DOMAIN activeStreams
                     => Len(sent') = 1 /\ UNCHANGED <<activeStreams, stopping>>
                /\ (s \in DOMAIN activeStreams /\ activeStreams[s].ffmpeg = "running")
                     => /\ s \notin DOMAIN activeStreams'
                        /\ Len(sent') = 1
                        /\ Len(stopping') = Len(stopping) + 1
                        /\ SubSeq(stopping', 1, Len(stopping)) = stopping
                        /\ stopping'[Len(stopping')].id = activeStreams[s].id
                        /\ stopping'[Len(stopping')].pc = "waiting"]_vars

\* A streaming peer was torn down: its slot is free, the other peer got the
\* ready_state, and the stop of its pipeline has not finished.
C17_Witness ==
    /\ event.type \in {"close", "error"}
    /\ event.ws \notin clients
    /\ Len(sent) = 1
    /\ sent[1].to # {}
    /\ stopping # << >>
    /\ DOMAIN activeStreams = {}
    /\ stopping[1].agentId \notin Occupied

\* C18: a ready frame from the peer at slot s changes the flag of s alone, to
\* the value sent, and a set_name frame changes the name of s alone; no frame
\* of another peer and no other event turns the flag of an attached peer to
\* true or changes its name, and only travel_request, execute_travel and
\* reset_raid turn another peer's flag to false.
C18_OnlyTheOwnerSets ==
    [][/\ (event'.type = "ready" /\ event'.ws \in DOMAIN clientAgents)
            => /\ agentReadyState' =
                    [agentReadyState EXCEPT ![clientAgents[event'.ws]] = event'.value]
               /\ UNCHANGED <<agentNames, travelMode, clients, clientAgents,
                              activeStreams, stopping>>
       /\ (event'.type = "set_name" /\ event'.ws \in DOMAIN clientAgents)
            => /\ DOMAIN agentNames' = DOMAIN agentNames
               /\ \A i \in DOMAIN agentNames \ {clientAgents[event'.ws]} :
                     agentNames'[i] = agentNames[i]
               /\ UNCHANGED <<agentReadyState, travelMode, clients, clientAgents,
                              activeStreams, stopping>>
       /\ \A c \in clients \cap clients' :
             LET s == clientAgents[c]
             IN  /\ (~agentReadyState[s] /\ agentReadyState'[s])
                      => (event'.type = "ready" /\ event'.ws = c)
                 /\ agentNames'[s] # agentNames[s]
                      => (event'.type = "set_name" /\ event'.ws = c)
                 /\ (agentReadyState[s] /\ ~agentReadyState'[s])
                      => \/ event'.type = "ready" /\ event'.ws = c
                         \/ event'.type \in {"travel_request", "execute_travel",
                                             "reset_raid"}]_vars

\* One peer has just set ready=true while the other, which has a name, is
\* not ready.
C18_Witness ==
    /\ event.type = "ready"
    /\ event.value
    /\ Cardinality(clients) = 2
    /\ agentReadyState[AgentOf(event.ws)]
    /\ \E c \in clients \ {event.ws} :
          /\ ~agentReadyState[AgentOf(c)]
          /\ agentNames[AgentOf(c)] # << >>

\* n without its leading and trailing whitespace: from the first to the last
\* code unit that is not whitespace.
Stripped(n) ==
    LET I == {i \in 1..Len(n) : n[i] \notin WhiteSpace}
    IN  IF I = {} THEN << >>
        ELSE SubSeq(n, CHOOSE i \in I : \A j \in I : i <= j,
                       CHOOSE i \in I : \A j \in I : i >= j)

\* The number of code points of a sequence of UTF-16 code units: a high
\* surrogate followed by a low surrogate is one code point.
CodePoints(n) ==
    Len(n) - Cardinality({i \in 1..(Len(n) - 1) : n[i] = "D83D" /\ n[i + 1] = "DE00"})

\* The first k code points of n.
RECURSIVE TakeCodePoints(_, _)
TakeCodePoints(n, k) ==
    IF k = 0 \/ n = << >> THEN << >>
    ELSE IF Len(n) >= 2 /\ n[1] = "D83D" /\ n[2] = "DE00"
    THEN <<n[1], n[2]>> \o TakeCodePoints(SubSeq(n, 3, Len(n)), k - 1)
    ELSE <<n[1]>> \o TakeCodePoints(Tail(n), k - 1)

\* C19 as stated: after set_name with input n the sender's name is n without
\* its leading and trailing whitespace, cut to its first 32 code points, and
\* every name has at most 32 code points and neither leading nor trailing
\* whitespace.
C19_TrimmedTo32CodePoints ==
    /\ (event.type = "set_name" /\ event.ws \in clients)
         => agentNames[AgentOf(event.ws)] = TakeCodePoints(Stripped(event.name), 32)
    /\ \A s \in DOMAIN agentNames :
          /\ CodePoints(agentNames[s]) <= 32
          /\ agentNames[s] # << >>
               => /\ agentNames[s][1] \notin WhiteSpace
                  /\ agentNames[s][Len(agentNames[s])] \notin WhiteSpace

\* C19, amended: after set_name with input n the sender's name is n without
\* its leading and trailing whitespace, cut to its first 32 UTF-16 code units;
\* every name has at most 32 code units and no leading whitespace, and a name
\* shorter than 32 code units has no trailing whitespace.
C19_TrimmedTo32CodeUnits ==
    /\ (event.type = "set_name" /\ event.ws \in clients)
         => LET t == Stripped(event.name)
            IN  agentNames[AgentOf(event.ws)] =
                  [i \in 1..(IF Len(t) < 32 THEN Len(t) ELSE 32) |-> t[i]]
    /\ \A s \in DOMAIN agentNames :
          /\ Len(agentNames[s]) <= 32
          /\ agentNames[s] # << >> => agentNames[s][1] \notin WhiteSpace
          /\ (agentNames[s] # << >> /\ Len(agentNames[s]) < 32)
               => agentNames[s][Len(agentNames[s])] \notin WhiteSpace

\* A name longer than the limit was set and the cut left a space at its end.
C19_Witness ==
    /\ event.type = "set_name"
    /\ event.ws \in clients
    /\ Len(event.name) > 32
    /\ Len(agentNames[AgentOf(event.ws)]) = 32
    /\ agentNames[AgentOf(event.ws)][32] \in WhiteSpace

\* C20: activeStreams holds at most one session per slot, the session stored
\* for a slot is that slot's, and every slot with a session is held by an
\* attached peer, whatever the order of stream_start, stream_stop, close and
\* error events and of the stop procedures that are still running.
C20_SessionsOfAttachedPeers ==
    /\ DOMAIN activeStreams \subseteq Occupied
    /\ \A s \in DOMAIN activeStreams : activeStreams[s].agentId = s
    /\ \A s, t \in DOMAIN activeStreams :
          activeStreams[s].agentId = activeStreams[t].agentId => s = t

\* A peer was torn down while its pipeline ran, and the peer that took over
\* its slot streams while the stop of the old session is still running.
C20_Witness ==
    /\ event.type = "stream_start"
    /\ event.ws > 1
    /\ AgentOf(event.ws) = 1
    /\ 1 \in DOMAIN activeStreams
    /\ \E i \in 1..Len(stopping) : stopping[i].agentId = 1
    /\ 1 \notin clients

\* ---------------------------------------------------------------- C21
AlreadyStreamingError == [type |-> "error", message |-> "Already streaming"]

\* C21: a stream_start from a peer whose slot already has a session writes
\* one frame, the error "Already streaming", to the sender alone, and changes
\* nothing: no session is made or replaced, the live directory and the archive
\* files stay as they are, and no stream_status is broadcast.
C21_AlreadyStreaming ==
    [][(/\ event'.type = "stream_start"
        /\ AgentOf(event'.ws) \in DOMAIN activeStreams)
          => /\ sent' = <<[kind |-> "send", to |-> {event'.ws},
                           frame |-> AlreadyStreamingError]>>
             /\ UNCHANGED <<activeStreams, stopping, hlsDirs, recordings>>
             /\ UNCHANGED <<clients, clientAgents, agentReadyState, agentNames,
                            travelMode>>]_vars

\* A second stream_start was refused while another peer was attached and the
\* session had transcoded a chunk into its live directory.
C21_Witness ==
    /\ event.type = "stream_start"
    /\ Len(sent) = 1
    /\ sent[1].frame = AlreadyStreamingError
    /\ Cardinality(clients) > 1
    /\ AgentOf(event.ws) \in DOMAIN activeStreams
    /\ AgentOf(event.ws) \in DOMAIN hlsDirs
    /\ hlsDirs[AgentOf(event.ws)] > 0
    /\ activeStreams[AgentOf(event.ws)].totalBytes > 0

\* ---------------------------------------------------------------- C22
\* C22: a stream_stop from a peer whose slot has no active session does
\* nothing: no variable of the server changes, no directory or file is
\* touched, no stop procedure advances or issues a request, and no frame is
\* written.
C22_StopWithoutSession ==
    [][(/\ event'.type = "stream_stop"
        /\ AgentOf(event'.ws) \notin DOMAIN activeStreams)
          => /\ sent' = << >>
             /\ UNCHANGED <<activeStreams, stopping, hlsDirs, recordings>>
             /\ UNCHANGED <<clients, clientAgents, agentReadyState, agentNames,
                            travelMode, readyState>>]_vars

\* A stream_stop arrived while the slot's earlier session was being uploaded
\* and its directory and archive file were still there.
C22_Witness ==
    /\ event.type = "stream_stop"
    /\ sent = << >>
    /\ AgentOf(event.ws) \notin DOMAIN activeStreams
    /\ AgentOf(event.ws) \in DOMAIN hlsDirs
    /\ Len(stopping) = 1
    /\ stopping[1].agentId = AgentOf(event.ws)
    /\ stopping[1].pc = "put"
    /\ stopping[1].id \in DOMAIN recordings

\* ---------------------------------------------------------------- C23
\* The sessions that exist: the active ones and those being stopped.
LiveSessions ==
    {activeStreams[a] : a \in DOMAIN activeStreams}
        \cup {stopping[k] : k \in 1..Len(stopping)}

UploadSequence == <<"upload-url", "upload", "save">>

IsPrefix(s, full) == Len(s) <= Len(full) /\ s = SubSeq(full, 1, Len(s))

\* No session is stopped by two procedures, a session that is still active
\* has had none of the stop effects, and a session being stopped has had its
\* sinks ended once, at most one kill, and each upload request at most once.
OneStopEach ==
    /\ \A a \in DOMAIN activeStreams :
          /\ activeStreams[a].pc = "active"
          /\ activeStreams[a].sinkEnds = 0
          /\ activeStreams[a].stdinEnds = 0
          /\ activeStreams[a].kills = 0
          /\ activeStreams[a].requests = << >>
          /\ \A k \in 1..Len(stopping) : stopping[k].id # activeStreams[a].id
    /\ \A k \in 1..Len(stopping) :
          /\ stopping[k].sinkEnds = 1
          /\ stopping[k].stdinEnds <= 1
          /\ stopping[k].kills <= 1
          /\ IsPrefix(stopping[k].requests, UploadSequence)
          /\ \A j \in 1..Len(stopping) : stopping[j].id = stopping[k].id => j = k

\* A stream_stop, close or error leaves every stop procedure that is already
\* running as it is; and an archive file is deleted, and the last
\* stream_status of a session written, only in the step in which its stop
\* procedure ends, after which the session no longer exists.
OneStopStep ==
    /\ event'.type \in {"stream_stop", "close", "error"}
          => \A k \in 1..Len(stopping) :
                /\ k <= Len(stopping')
                /\ stopping'[k] = stopping[k]
    /\ \A s \in LiveSessions :
          (s.id \in DOMAIN recordings /\ s.id \notin DOMAIN recordings')
             => /\ s.id \notin LiveIds'
                /\ s.sinkEnds + (IF s.pc = "active" THEN 1 ELSE 0) = 1
                /\ Len(sent') > 0
                /\ sent'[Len(sent')].frame.type = "stream_status"

\* C23: under every interleaving of stream_stop, close and error for a
\* session, a second stop arriving while the first waits included, each
\* effect of the stop procedure (end of the archive sink, end of the
\* transcoder's stdin, the upload requests, the deletion of the files and the
\* final stream_status) is carried out at most once for the session.
C23_StopEffectsOnce == []OneStopEach /\ [][OneStopStep]_vars

\* The socket closed while the upload of the session it had stopped was
\* under way.
C23_Witness ==
    /\ event.type = "close"
    /\ Len(stopping) = 1
    /\ stopping[1].pc = "put"
    /\ stopping[1].requests = <<"upload-url", "upload">>
    /\ stopping[1].sinkEnds = 1
    /\ stopping[1].stdinEnds = 1
    /\ DOMAIN activeStreams = {}

\* ---------------------------------------------------------------- C24
\* C24: a binary frame from a peer whose slot has no active session, be it
\* before any stream_start or after a stop has begun and while it still runs,
\* is dropped: no session, directory or archive file changes, no byte counter
\* moves, and no frame is written.
C24_ChunkDropped ==
    [][(/\ event'.type = "binary"
        /\ AgentOf(event'.ws) \notin DOMAIN activeStreams)
          => /\ sent' = << >>
             /\ UNCHANGED <<activeStreams, stopping, hlsDirs, recordings>>]_vars

\* A chunk arrived while the stop of the sender's session was waiting for the
\* transcoder, with the live directory and the archive file still in place.
C24_Witness ==
    /\ event.type = "binary"
    /\ AgentOf(event.ws) \notin DOMAIN activeStreams
    /\ AgentOf(event.ws) \in DOMAIN hlsDirs
    /\ Len(stopping) = 1
    /\ stopping[1].agentId = AgentOf(event.ws)
    /\ stopping[1].pc = "waiting"
    /\ stopping[1].id \in DOMAIN recordings

\* ---------------------------------------------------------------- C25
\* The stop procedure of the session s ends in this step.
Finishes(s) == s.id \in LiveIds /\ s.id \notin LiveIds'

\* The streams list of the last frame written in this step.
LastStreams == sent'[Len(sent')].frame.streams

\* What holds of every step that ends a stop procedure, but for the streams
\* list; and the order of upload and deletion.
StopEndsClean ==
    /\ \A s \in LiveSessions :
          Finishes(s)
             => /\ s.agentId \notin DOMAIN hlsDirs'
                /\ s.id \notin DOMAIN recordings'
                /\ Len(sent') > 0
                /\ sent'[Len(sent')].kind = "broadcast"
                /\ sent'[Len(sent')].frame.type = "stream_status"
                /\ LastStreams =
                      {[agentId |-> a, name |-> activeStreams'[a].agentName] :
                          a \in DOMAIN activeStreams'}
    /\ \A s \in LiveSessions :
          (s.id \in DOMAIN recordings /\ s.id \notin DOMAIN recordings')
              => /\ Finishes(s)
                 /\ \/ event'.type = "response"
                    \/ s.requests = << >>
    /\ \A k \in 1..Len(stopping') :
          stopping'[k].pc \in {"waiting", "url", "put", "save"}
              => stopping'[k].id \in DOMAIN recordings'
    /\ (event'.type = "response" /\ ~event'.value)
          => \E s \in LiveSessions : s.id = event'.session /\ Finishes(s)

\* C25 as stated: once the stop procedure of a session of slot s has ended,
\* with the upload done, failed or skipped, the slot's live directory and the
\* session's archive file are absent and the last step was a stream_status
\* whose streams list has no entry for s; the archive file goes only after
\* the upload attempt has ended; a failed upload does not cut the procedure
\* short.
C25_StreamsWithoutSlot ==
    [][/\ StopEndsClean
       /\ \A s \in LiveSessions :
             Finishes(s) => \A e \in LastStreams : e.agentId # s.agentId]_vars

\* What the code does instead: the streams list is that of the sessions active
\* at that moment, so it has an entry for s when a new session was started for
\* s while the stop ran; the live directory of that new session is then gone
\* as well.
StopEndsWithoutSession ==
    [][/\ StopEndsClean
       /\ \A s \in LiveSessions :
             Finishes(s)
                => \A e \in LastStreams :
                      e.agentId = s.agentId
                         => /\ s.agentId \in DOMAIN activeStreams'
                            /\ activeStreams'[s.agentId].id # s.id]_vars

\* A failed upload ended the stop of a session whose slot was streaming
\* again: the new session is listed and has lost its live directory.
RestartedDuringStop ==
    /\ event.type = "response"
    /\ ~event.value
    /\ stopping = << >>
    /\ Len(sent) = 1
    /\ sent[1].frame.type = "stream_status"
    /\ \E a \in DOMAIN activeStreams :
          /\ activeStreams[a].id # event.session
          /\ event.session[1] = a
          /\ a \notin DOMAIN hlsDirs
          /\ DOMAIN recordings = {activeStreams[a].id}

\* ---------------------------------------------------------------- C26
\* The session with the identity id after the step.
After(id) == CHOOSE s \in LiveSessions' : s.id = id

\* The wait for the transcoder of the session s is over in this step: its
\* transcoder closes or its timer fires, or the stop is called when the
\* transcoder has already exited.
WaitOver(s) ==
    \/ /\ s.pc = "waiting"
       /\ event'.type \in {"transcoder_close", "kill_timeout"}
       /\ event'.session = s.id
    \/ /\ s.pc = "active"
       /\ s.ffmpeg = "exited"
       /\ event'.type \in {"stream_stop", "close", "error"}
       /\ AgentOf(event'.ws) = s.agentId

\* A fetch of the session s settles in this step.
Settles(s) == event'.type = "response" /\ event'.session = s.id

\* The archive file of the session s exists and is not empty.
HasArchive(s) == s.id \in DOMAIN recordings /\ recordings[s.id] > 0

\* The requests a session has issued are the first ones of the sequence, and
\* there are none unless the store is configured and the archive is not empty.
RequestsInOrder ==
    \A s \in LiveSessions :
        /\ IsPrefix(s.requests, UploadSequence)
        /\ s.requests # << >> => config /\ HasArchive(s)
        /\ s.pc \in {"active", "waiting"} => s.requests = << >>

\* The requests are issued one at a time: the first when the wait is over, if
\* the store is configured and the archive not empty, else none and the stop
\* ends; the next when the one before succeeded; after a failure, or after
\* the third, the stop ends; and no other step issues a request.
RequestsStep ==
    \A s \in LiveSessions :
        /\ WaitOver(s)
              => IF config /\ HasArchive(s)
                 THEN ~Finishes(s) /\ After(s.id).requests = <<"upload-url">>
                 ELSE Finishes(s)
        /\ Settles(s)
              => IF event'.value /\ Len(s.requests) < Len(UploadSequence)
                 THEN /\ ~Finishes(s)
                      /\ After(s.id).requests =
                            SubSeq(UploadSequence, 1, Len(s.requests) + 1)
                 ELSE Finishes(s)
        /\ (~WaitOver(s) /\ ~Settles(s) /\ ~Finishes(s))
              => After(s.id).requests = s.requests

\* C26: for every stopped session the requests go out in the order
\* upload-url, upload, save, each at most once, when the store is configured
\* and the archive file is not empty; a failed step is followed by no other
\* request and is not tried again; and without configuration, or with the
\* archive missing or empty, no request is issued.
C26_UploadSequence == []RequestsInOrder /\ [][RequestsStep]_vars

\* The third request of a session succeeded and its stop ended.
C26_Witness ==
    /\ event.type = "response"
    /\ event.value
    /\ event.session \notin LiveIds
    /\ event.session \notin DOMAIN recordings
    /\ config

\* ---------------------------------------------------------------- C27
\* The stop procedure is called in this step for the active session s.
StopCalled(s) ==
    /\ s.pc = "active"
    /\ event'.type \in {"stream_stop", "close", "error"}
    /\ AgentOf(event'.ws) = s.agentId

\* C27, as far as a single step shows it: a stop called for a session whose
\* transcoder has already ended, with an exit code or by a signal, does not
\* wait; a wait ends in the step in which the transcoder closes or the timer
\* fires; and the transcoder is killed by the timer only, while the stop still
\* waits.  (That the timer does fire makes every wait end.)
C27_WaitEndsWithTranscoder ==
    [][\A s \in LiveSessions :
          /\ (StopCalled(s) /\ s.ffmpeg # "running")
                => Finishes(s) \/ After(s.id).pc # "waiting"
          /\ (s.pc = "waiting" /\ event'.session = s.id
                  /\ event'.type \in {"transcoder_close", "kill_timeout"})
                => Finishes(s) \/ After(s.id).pc # "waiting"
          /\ (~Finishes(s) /\ After(s.id).kills # s.kills)
                => /\ event'.type = "kill_timeout"
                   /\ event'.session = s.id
                   /\ s.pc = "waiting"]_vars

\* ---------------------------------------------------------------- C28
\* C28: the exit of an active session's transcoder starts the stop procedure
\* for the session, whose first act is to take the session out of
\* activeStreams: once the handlers of the exit have run, no active session is
\* left with a transcoder that has ended.
C28_OwnExitStops ==
    \A a \in DOMAIN activeStreams : activeStreams[a].ffmpeg = "running"

\* ---------------------------------------------------------------- C29
\* C29: when the process exits after SIGINT or SIGTERM, every session that
\* was active at the signal has gone through the whole stop procedure: none
\* is still active, and none is still waiting for its transcoder, uploading
\* or yet to clean up.
C29_StoppedBeforeExit ==
    phase = "exited" => DOMAIN activeStreams = {} /\ stopping = << >>

\* ---------------------------------------------------------------- C30
\* A write of a broadcast of this step fails: the frame is written to the
\* attached peer b, whose connection is broken.
WriteFails(b) ==
    /\ b \in clients
    /\ b \in broken
    /\ \E i \in 1..Len(sent') : sent'[i].kind = "broadcast" /\ b \in sent'[i].to

\* The types of the frames written in this step, in order.
TypesSent == [i \in 1..Len(sent') |-> sent'[i].frame.type]

\* The handler of this step has written all its frames and made its updates.
HandlerCompleted ==
    /\ event'.type = "connection"
          => TypesSent = <<"agent_assigned", "ready_state">>
    /\ event'.type = "ready"
          => /\ TypesSent = <<"ready_state">>
             /\ agentReadyState'[AgentOf(event'.ws)] = event'.value
    /\ event'.type = "set_name"
          => /\ TypesSent = <<"ready_state">>
             /\ agentNames'[AgentOf(event'.ws)] = cleanName(event'.name)
    /\ event'.type = "start_request"
          => TypesSent = <<"countdown", "start">>
    /\ event'.type = "travel_request"
          => /\ TypesSent = <<"travel_mode", "ready_state">>
             /\ travelMode'
             /\ \A a \in DOMAIN agentReadyState' : ~agentReadyState'[a]
    /\ event'.type = "execute_travel"
          => /\ TypesSent = <<"execute_travel", "travel_mode", "ready_state">>
             /\ ~travelMode'
             /\ \A a \in DOMAIN agentReadyState' : ~agentReadyState'[a]
    /\ event'.type = "reset_raid"
          => /\ TypesSent = <<"travel_mode", "reset", "ready_state">>
             /\ ~travelMode'
             /\ \A a \in DOMAIN agentReadyState' : ~agentReadyState'[a]
    /\ event'.type \in {"close", "error"}
          => /\ TypesSent = <<"ready_state">>
             /\ event'.ws \notin clients'
             /\ event'.ws \notin DOMAIN clientAgents'

BroadcastOrder(s) ==
    LET Accepted(m) == m.kind = "broadcast"
        accepted == SelectSeq(s, Accepted)
    IN  [i \in 1..Len(accepted) |-> accepted[i].frame]

\* The broadcast frames written to the socket of peer p in that step, in the
\* order of the writes.
ReceivedBy(p, s) ==
    LET Written(m) == m.kind = "broadcast" /\ p \in m.to
        written == SelectSeq(s, Written)
    IN  [i \in 1..Len(written) |-> written[i].frame]

\* C31: in every step, broadcast frames are written to attached peers only;
\* an attached peer whose socket is open is written every broadcast frame of
\* the step in the order in which broadcast accepted them, and any other
\* attached peer none; so two peers that are attached and open before and
\* after the step are written the same sequence.
C31_BroadcastOrder ==
    [][/\ \A i \in 1..Len(sent') :
             sent'[i].kind = "broadcast" => sent'[i].to \subseteq clients'
       /\ \A p \in clients' :
             ReceivedBy(p, sent') = IF readyState'[p] = OPEN
                                    THEN BroadcastOrder(sent')
                                    ELSE << >>
       /\ \A p \in clients \cap clients' : \A q \in clients \cap clients' :
             (/\ readyState[p] = OPEN /\ readyState'[p] = OPEN
              /\ readyState[q] = OPEN /\ readyState'[q] = OPEN)
                => ReceivedBy(p, sent') = ReceivedBy(q, sent')]_vars

\* Three frames were broadcast in one step while the first of three attached
\* peers was half closed: the two open peers were written all three.
C31_Witness ==
    /\ Cardinality(clients) = 3
    /\ readyState[1] # OPEN
    /\ readyState[2] = OPEN
    /\ readyState[3] = OPEN
    /\ Len(BroadcastOrder(sent)) = 3
    /\ ReceivedBy(1, sent) = << >>
    /\ ReceivedBy(2, sent) = BroadcastOrder(sent)
    /\ ReceivedBy(3, sent) = BroadcastOrder(sent)

\* ---------------------------------------------------------------- C32
\* The frames that handleMessage does not know: the default case and the catch.
IgnoredTypes == {"unknown", "invalid_json"}

\* C32: a text frame of an unknown type or one that is not JSON changes
\* nothing (flags, names, travel mode, slots, sessions, files), writes no
\* frame and leaves the sender attached with its socket and its listeners as
\* they were; in the state it leaves, a frame of the sender is handled: a
\* ready frame that follows sets the sender's flag and is broadcast.
C32_IgnoredFrame ==
    /\ [][event'.type \in IgnoredTypes
            => /\ UNCHANGED state
               /\ UNCHANGED <<created, readyState, hooked>>
               /\ UNCHANGED env
               /\ sent' = << >>
               /\ event'.ws \in clients'
               /\ event'.ws \in hooked']_vars
    /\ [][(/\ event.type \in IgnoredTypes
           /\ event'.type = "ready"
           /\ event'.ws = event.ws
           /\ AgentOf(event.ws) # 0)
            => /\ agentReadyState'[AgentOf(event.ws)] = event'.value
               /\ Len(sent') = 1
               /\ sent'[1].frame.type = "ready_state"]_vars
    /\ [](event.type \in IgnoredTypes
            => ENABLED (/\ Ready(event.ws, TRUE)
                        /\ agentReadyState'[AgentOf(event.ws)]))

\* A frame that is not JSON arrived from a ready peer during travel mode while
\* a second peer was attached, and nothing was written.
C32_Witness ==
    /\ event.type = "invalid_json"
    /\ sent = << >>
    /\ event.ws \in clients
    /\ readyState[event.ws] = OPEN
    /\ AgentOf(event.ws) # 0
    /\ agentReadyState[AgentOf(event.ws)]
    /\ travelMode
    /\ Cardinality(clients) = 2

\* ---------------------------------------------------------------- C33
\* The events whose handler can answer with an error frame.
Refusable == {"connection", "start_request", "execute_travel", "stream_start"}

\* C33: an error frame or a pong frame is written with ws.send to the one
\* socket whose connection or frame is being handled, never broadcast and
\* never to another socket; pong answers ping only, error only a connection,
\* start_request, execute_travel or stream_start; and ping changes nothing
\* and writes the pong alone.
C33_RepliesToSenderOnly ==
    [][/\ \A i \in 1..Len(sent') :
             sent'[i].frame.type \in {"error", "pong"}
                => /\ sent'[i].kind = "send"
                   /\ sent'[i].to = {event'.ws}
                   /\ sent'[i].frame.type = "pong" => event'.type = "ping"
                   /\ sent'[i].frame.type = "error" => event'.type \in Refusable
                   /\ \A j \in 1..Len(sent') :
                         sent'[j].kind = "broadcast" => sent'[j].to = {}
       /\ event'.type = "ping"
             => /\ UNCHANGED state
                /\ UNCHANGED <<created, readyState, hooked>>
                /\ UNCHANGED env
                /\ Len(sent') = 1
                /\ sent'[1].frame.type = "pong"]_vars

\* A ninth connection was refused while eight peers were attached and open:
\* the error frame went to the refused socket alone.
C33_Witness ==
    /\ event.type = "connection"
    /\ event.ws \notin clients
    /\ Cardinality(clients) = MAX_AGENTS
    /\ \A c \in clients : readyState[c] = OPEN
    /\ Len(sent) = 2
    /\ sent[1].frame.type = "error"
    /\ sent[1].to = {event.ws}

\* A ping was answered while a second peer was attached and open.
C33_PongWitness ==
    /\ event.type = "ping"
    /\ Len(sent) = 1
    /\ sent[1].frame.type = "pong"
    /\ sent[1].to = {event.ws}
    /\ \E c \in clients : c # event.ws /\ readyState[c] = OPEN

\* ---------------------------------------------------------------- C34
\* C34: the live directory of every session in the active set exists; the
\* cleanup of an earlier session's stop does not remove it.
C34_LiveDirectoryKept ==
    \A agentId \in DOMAIN activeStreams : agentId \in DOMAIN hlsDirs

\* ---------------------------------------------------------------- C35
\* The ready_state frames among the frames s.
ReadyStateFrames(s) ==
    LET IsReadyState(m) == m.frame.type = "ready_state"
    IN  SelectSeq(s, IsReadyState)

\* C35: the first close or error event of an attached socket tears the peer
\* down (socket, slot, flag, name and pipeline session removed, one
\* ready_state broadcast); every later close or error event of that socket,
\* in whichever order, changes nothing and writes nothing, also when another
\* peer has taken the slot in between.
C35_TeardownOnce ==
    [][event'.type \in {"close", "error"}
         => IF event'.ws \in clients
            THEN LET s == clientAgents[event'.ws]
                 IN  /\ clients' = clients \ {event'.ws}
                     /\ DOMAIN clientAgents' = DOMAIN clientAgents \ {event'.ws}
                     /\ DOMAIN agentReadyState' = DOMAIN agentReadyState \ {s}
                     /\ DOMAIN agentNames' = DOMAIN agentNames \ {s}
                     /\ DOMAIN activeStreams' = DOMAIN activeStreams \ {s}
                     /\ \A a \in DOMAIN agentReadyState' :
                           /\ agentReadyState'[a] = agentReadyState[a]
                           /\ agentNames'[a] = agentNames[a]
                     /\ Len(ReadyStateFrames(sent')) = 1
            ELSE /\ UNCHANGED state
                 /\ sent' = << >>]_vars

\* The first socket was torn down, the second took slot 1, set flag and name
\* and streams; an error event of the first socket, closed long since, left
\* all that in place and wrote nothing.
C35_Witness ==
    /\ event.type = "error"
    /\ event.ws = 1
    /\ readyState[1] = CLOSED
    /\ 2 \in clients
    /\ AgentOf(2) = 1
    /\ agentReadyState[1]
    /\ agentNames[1] # << >>
    /\ 1 \in DOMAIN activeStreams
    /\ sent = << >>

\* ---------------------------------------------------------------- C36
\* C36: a binary frame from the peer of an active session adds the chunk to
\* the session's byte counter and leaves the session as it is otherwise,
\* whether or not the transcoder's stdin or the archive write stream is
\* destroyed; the chunk reaches the live directory only while the transcoder
\* runs and the archive file only while its write stream is open; and a
\* session leaves the active set only in the step that handles stream_stop,
\* close or error of its peer.
C36_ChunkCounted ==
    [][/\ (event'.type = "binary" /\ AgentOf(event'.ws) \in DOMAIN activeStreams)
            => LET a == AgentOf(event'.ws)
                   stream == activeStreams[a]
               IN  /\ activeStreams' =
                         [activeStreams EXCEPT ![a].totalBytes = stream.totalBytes + 1]
                   /\ stream.ffmpeg # "running" => hlsDirs' = hlsDirs
                   /\ stream.sink # "open" => recordings' = recordings
                   /\ (stream.sink = "open" /\ stream.id \in DOMAIN recordings)
                         => recordings'[stream.id] = recordings[stream.id] + 1
                   /\ UNCHANGED <<stopping, clients, clientAgents>>
       /\ \A a \in DOMAIN activeStreams :
             a \notin DOMAIN activeStreams'
                => /\ event'.type \in {"stream_stop", "close", "error"}
                   /\ AgentOf(event'.ws) = a]_vars

\* Three chunks were counted for a session that is still active although its
\* transcoder is gone and its archive write stream is destroyed; the archive
\* file holds fewer.
C36_Witness ==
    /\ event.type = "binary"
    /\ AgentOf(event.ws) \in DOMAIN activeStreams
    /\ LET stream == activeStreams[AgentOf(event.ws)]
       IN  /\ stream.totalBytes = 3
           /\ stream.ffmpeg # "running"
           /\ stream.sink = "destroyed"
           /\ recordings[stream.id] < 3
           /\ hlsDirs[stream.agentId] < 3

\* ---------------------------------------------------------------- C37
\* C37: travelMode is set by a travel_request of an attached peer, cleared by
\* an execute_travel of an attached peer during travel mode and by reset_raid,
\* and changed by no other step: connections, close and error events and all
\* other frames leave it as it is, with or without peers attached.
C37_TravelModeChanges ==
    [][/\ (event'.type = "travel_request" /\ AgentOf(event'.ws) # 0) => travelMode'
       /\ (event'.type = "execute_travel" /\ AgentOf(event'.ws) # 0 /\ travelMode)
            => ~travelMode'
       /\ event'.type = "reset_raid" => ~travelMode'
       /\ travelMode' # travelMode
            => \/ event'.type = "travel_request" /\ travelMode'
               \/ event'.type = "execute_travel" /\ travelMode /\ ~travelMode'
               \/ event'.type = "reset_raid" /\ ~travelMode']_vars

\* Travel mode was set, every peer detached, and a peer that attached
\* afterwards finds it still set.
C37_Witness ==
    /\ event.type = "connection"
    /\ travelMode
    /\ clients = {event.ws}
    /\ event.ws >= 2

\* ---------------------------------------------------------------- C38
\* The session with the identity id, among the sessions ss.
SessionOf(id, ss) == CHOOSE s \in ss : s.id = id

\* The sessions that exist after the step.
LiveSessionsAfter ==
    {activeStreams'[a] : a \in DOMAIN activeStreams'}
        \cup {stopping'[k] : k \in 1..Len(stopping')}

\* C38: a session started by stream_start carries the display name the slot
\* had when the frame was handled; no step changes the name of a session that
\* exists, so the session handed to the upload carries it still; a set_name of
\* the owner changes the display name and the ready_state broadcast and no
\* session; and every entry of a stream_status frame carries the name of the
\* active session of its slot.
C38_SessionNameSnapshot ==
    [][/\ (/\ event'.type = "stream_start"
           /\ AgentOf(event'.ws) # 0
           /\ AgentOf(event'.ws) \notin DOMAIN activeStreams)
            => LET a == AgentOf(event'.ws)
               IN  /\ a \in DOMAIN activeStreams'
                   /\ activeStreams'[a].agentName = agentNames[a]
       /\ \A s \in LiveSessions :
             (\E n \in LiveSessionsAfter : n.id = s.id)
                => SessionOf(s.id, LiveSessionsAfter).agentName = s.agentName
       /\ (event'.type = "set_name" /\ AgentOf(event'.ws) # 0)
            => LET a == AgentOf(event'.ws)
               IN  /\ agentNames'[a] = cleanName(event'.name)
                   /\ UNCHANGED <<activeStreams, stopping>>
                   /\ Len(sent') = 1
                   /\ sent'[1].frame.type = "ready_state"
                   /\ sent'[1].frame.names[a] = cleanName(event'.name)
       /\ \A i \in 1..Len(sent') :
             sent'[i].frame.type = "stream_status"
                => sent'[i].frame.streams =
                      {[agentId |-> a, name |-> activeStreams'[a].agentName] :
                          a \in DOMAIN activeStreams'}]_vars

\* The second peer started a stream after the first, streaming under the
\* empty name, had named itself: the stream_status lists the first peer's
\* session under the empty name.
C38_Witness ==
    /\ event.type = "stream_start"
    /\ event.ws = 2
    /\ Len(sent) = 1
    /\ sent[1].frame.type = "stream_status"
    /\ 1 \in DOMAIN activeStreams
    /\ agentNames[1] # << >>
    /\ activeStreams[1].agentName = << >>
    /\ [agentId |-> 1, name |-> << >>] \in sent[1].frame.streams

\* The metadata request of an upload was issued for a session whose slot has
\* another display name by now.
C38_UploadWitness ==
    \E k \in 1..Len(stopping) :
        /\ stopping[k].pc = "save"
        /\ stopping[k].agentId \in DOMAIN agentNames
        /\ agentNames[stopping[k].agentId] # stopping[k].agentName

\* ---------------------------------------------------------------- C39
\* C39: whenever the server handles a binary frame that the desktop client
\* sent on its open socket, the server holds an active session for the slot
\* of that socket.
C39_ChunksHaveSession ==
    [][(event'.type = "binary" /\ renderer.ws # 0 /\ event'.ws = renderer.ws)
          => AgentOf(renderer.ws) \in DOMAIN activeStreams]_vars

\* ---------------------------------------------------------------- C40
\* The messages of a log, without the windows.
MsgsOf(log) == [i \in 1..Len(log) |-> log[i].msg]

\* What was sent to overlay window w, in the order of sending.
SentTo(w) == MsgsOf(SelectSeq(overlayUpdates, LAMBDA u : u.window = w))

\* The messages that arrived while w was the overlay window and its
\* readiness was r, in the order of arrival.
ArrivedAt(w, r) ==
    MsgsOf(SelectSeq(arrived, LAMBDA a : a.window = w /\ a.ready = r))

\* C40: for every overlay window, while it loads nothing is sent to it and
\* the queue holds exactly the messages that arrived since its creation, in
\* order; once it has loaded, what was sent to it is exactly those messages in
\* arrival order followed by the messages that arrived after loading, each
\* once; a window closed while loading received nothing; a message that
\* arrived with no window is never sent nor queued; with no window the queue
\* is empty.
C40_OverlayQueue ==
    /\ \A w \in 1..overlayCreated :
          LET early == ArrivedAt(w, FALSE)
              late  == ArrivedAt(w, TRUE)
          IN  IF w = overlayWindow /\ ~overlayReady
              THEN /\ SentTo(w) = << >>
                   /\ late = << >>
                   /\ pendingOverlayMessages = early
              ELSE IF w = overlayWindow
              THEN /\ SentTo(w) = early \o late
                   /\ pendingOverlayMessages = << >>
              ELSE \/ SentTo(w) = early \o late
                   \/ SentTo(w) = << >> /\ late = << >>
    /\ \A i, j \in DOMAIN overlayUpdates :
          overlayUpdates[i].msg = overlayUpdates[j].msg => i = j
    /\ \A k \in DOMAIN arrived :
          arrived[k].window = 0 =>
              /\ \A i \in DOMAIN overlayUpdates : overlayUpdates[i].msg # arrived[k].msg
              /\ \A i \in DOMAIN pendingOverlayMessages :
                    pendingOverlayMessages[i] # arrived[k].msg
    /\ overlayWindow = 0 => pendingOverlayMessages = << >>

\* A message arrived with no window, then two were queued for the next window
\* while it loaded, were sent when it had loaded, and a later one after them.
C40_Witness ==
    /\ overlayWindow # 0
    /\ overlayReady
    /\ Len(ArrivedAt(overlayWindow, FALSE)) >= 2
    /\ Len(ArrivedAt(overlayWindow, TRUE)) >= 1
    /\ \E k \in DOMAIN arrived : arrived[k].window = 0
    /\ SentTo(overlayWindow) =
          ArrivedAt(overlayWindow, FALSE) \o ArrivedAt(overlayWindow, TRUE)

\* The window was closed while two messages waited in its queue.
C40_DiscardWitness ==
    /\ overlayWindow = 0
    /\ \E w \in 1..overlayCreated :
          Len(ArrivedAt(w, FALSE)) >= 2 /\ SentTo(w) = << >>

====
